---- MODULE Spec2Model ----
(***************************************************************************)
(* Cyberbrain: the backward pass trace_flow (backtrace.py) over a Flow of  *)
(* Nodes (flow.py).  A Node is a record of its slots, its TrackingMetadata *)
(* is a second record; the two cursors of trace_flow are variables.        *)
(***************************************************************************)
EXTENDS Integers, Sequences, FiniteSets, TLC

\* ------------------------------------------------------------------ bounds
\* Values of variables are 0..MaxVal; only their equality is ever observed.
MaxVal == 1

Vals == 0..MaxVal

\* ------------------------------------------------------------- identifiers
\* Identifiers of the root frame and of a callee frame (a parameter that
\* shares its name with a caller variable, and the receiver).
RootIds == {"x", "y"}

CalleeIds == {"x", "self"}

\* Flow.ROOT, the sentinel before start, and Python's None for an unset edge.
ROOT == 0

NoNode == 0 - 1

\* FrameBelongingType, as far as trace_flow tells the values apart.
INIT_METHOD == "INIT_METHOD"

NEITHER == "NEITHER"

\* ------------------------------------------------------------------ state
VARIABLES
    node,      \* node id -> the Node slots: frame_id, prev, next, step_into,
               \*            returned_from, is_target, frame_belonging_type
    metadata,  \* node id -> its TrackingMetadata
    flow,      \* [start, target]
    current,   \* cursor of trace_flow
    next,      \* cursor of trace_flow
    pc,        \* "build" before build_flow, "built" after it, "walk" in the
               \* loop of trace_flow, "done" after it, "error" once raised;
               \* "record" while add_computation is called, "recorded" after
               \* cyberbrain.register; "apply" for a function on its own
    cm,        \* ComputationManager: frame_groups (frame id -> computations)
               \* in the order of its keys, and the target computation
    trace_pass,  \* "first" or "second": which call of trace_flow on the flow
    first_pass,  \* the metadata the first call of trace_flow left behind
    visits,      \* the nodes the loop of trace_flow has handled in this call,
                 \* each with the case it was handled as
    yielded,     \* the nodes iterating the flow has yielded, in order; empty
                 \* until the flow is iterated
    current_,    \* FrameID.current_, the frame id of the current code location
    child_index, \* FrameID.child_index: frame id -> index of its next child
    stack,       \* the frames of the traced program that are running
    activations, \* the frame ids FrameID has given to the calls, in their order
    result,      \* what the last call of add_computation, or of the function
                 \* under test, returned
    probe        \* the function under test and its arguments

\* The state of the recorder and of the functions applied on their own.
recording == <<current_, child_index, stack, activations, result, probe>>

vars == <<node, metadata, flow, current, next, pc, cm, trace_pass, first_pass,
          visits, yielded, recording>>

Nodes == DOMAIN node

\* ---------------------------------------------------------------- helpers
\* The elements of a list.
Range(s) == {s[i] : i \in DOMAIN s}

\* Every order in which a set can be iterated.
Orders(S) == {o \in [1..Cardinality(S) -> S] : Range(o) = S}

\* Snapshots: a mapping from some of the identifiers of S to values of V.
Snapshots(S, V) == UNION {[D -> V] : D \in SUBSET S}

\* A statement's syntax tree, reduced to the names it stores to and loads.
Stmt(targets, loads) == [targets |-> targets, loads |-> loads]

\* utils.find_names: every Name identifier of the statement.
find_names(code_ast) == code_ast.targets \cup code_ast.loads

\* utils.has_diff: deep structural inequality of two values.
has_diff(new_value, old_value) == new_value # old_value

\* The change records.
VarAppearance(id, value) == [id |-> id, value |-> value]

VarModification(id, old_value, new_value) ==
    [id |-> id, old_value |-> old_value, new_value |-> new_value]

VarSwitch(arg_id, param_id, value) ==
    [arg_id |-> arg_id, param_id |-> param_id, value |-> value]

\* An optional value: <<>> is Python's None, <<v>> holds v.
None == <<>>

Some(v) == <<v>>

\* The class attributes of FrameID as the module is loaded; no frame is
\* traced and no function is under test.
NotRecording ==
    /\ current_ = <<0>>
    /\ child_index = <<>>
    /\ stack = <<>>
    /\ activations = <<>>
    /\ result = None
    /\ probe = <<>>

\* TrackingMetadata.__init__
TrackingMetadata(vs, code_ast, vars_before_return) ==
    [vars |-> vs,
     code_ast |-> code_ast,
     vars_before_return |-> vars_before_return,
     param_to_arg |-> <<>>,
     arg_to_param |-> <<>>,
     tracking |-> {},
     var_appearances |-> <<>>,
     var_modifications |-> <<>>,
     var_switches |-> <<>>,
     is_relevant_return |-> FALSE]

\* Node.__init__ followed by build_relation.
Node(frame_id, prev, nxt, step_into, returned_from, fbt) ==
    [frame_id |-> frame_id,
     prev |-> prev,
     next |-> nxt,
     step_into |-> step_into,
     returned_from |-> returned_from,
     is_target |-> FALSE,
     frame_belonging_type |-> fbt]

\* Node.is_callsite
is_callsite(n) == node[n].step_into # NoNode

\* add_tracking without the test for presence in vars.
add_tracking_Unfiltered(md, new_ids) ==
    [md EXCEPT !.tracking = @ \cup new_ids]

\* TrackingMetadata.add_tracking: only identifiers present in vars are kept.
add_tracking(md, new_ids) ==
    [md EXCEPT !.tracking = @ \cup {i \in new_ids : i \in DOMAIN md.vars}]

\* sync_tracking_with that copies nothing.
sync_tracking_with_Nothing(md, other) == md

\* TrackingMetadata.sync_tracking_with
sync_tracking_with(md, other) == add_tracking(md, other.tracking)

\* A Flow whose target starts with an empty tracking.
update_target_id_Nothing(md, target_id) == md

\* Flow._update_target_id: the argument of register() starts the tracking.
update_target_id(md, target_id) == add_tracking(md, {target_id})

\* ------------------------------------------- get_and_update_var_changes
\* VarChange without the has_diff test: every present identifier is reported
\* as modified.
VarChange_NoDiffTest(self_md, other_md, var_id) ==
    IF var_id \notin DOMAIN self_md.vars
    THEN <<[kind |-> "appearance",
            rec |-> VarAppearance(var_id, other_md.vars[var_id])]>>
    ELSE <<[kind |-> "modification",
            rec |-> VarModification(var_id, self_md.vars[var_id],
                                    other_md.vars[var_id])]>>

\* VarChange that reports every identifier as newly appeared.
VarChange_AlwaysAppears(self_md, other_md, var_id) ==
    <<[kind |-> "appearance",
       rec |-> VarAppearance(var_id, other_md.vars[var_id])]>>

\* The change the generator yields for one identifier, as a list of 0 or 1.
VarChange(self_md, other_md, var_id) ==
    IF var_id \notin DOMAIN self_md.vars
    THEN <<[kind |-> "appearance",
            rec |-> VarAppearance(var_id, other_md.vars[var_id])]>>
    ELSE IF has_diff(other_md.vars[var_id], self_md.vars[var_id])
    THEN <<[kind |-> "modification",
            rec |-> VarModification(var_id, self_md.vars[var_id],
                                    other_md.vars[var_id])]>>
    ELSE <<>>

\* All changes the generator yields when other.tracking is iterated in order.
RECURSIVE VarChanges(_, _, _)
VarChanges(self_md, other_md, order) ==
    IF order = <<>> THEN <<>>
    ELSE VarChange(self_md, other_md, Head(order))
         \o VarChanges(self_md, other_md, Tail(order))

\* The first change written into the snapshot of the node instead of being
\* stored as a record.
StoreChanges_IntoVars(md, changes) ==
    IF changes = <<>> THEN md
    ELSE LET c == Head(changes)
             v == IF c.kind = "appearance" THEN c.rec.value
                  ELSE c.rec.new_value
         IN [md EXCEPT !.vars = [id \in DOMAIN md.vars \cup {c.rec.id} |->
                                   IF id = c.rec.id THEN v ELSE md.vars[id]]]

\* add_var_appearances / add_var_modifications for a list of yielded changes.
RECURSIVE StoreChanges(_, _)
StoreChanges(md, changes) ==
    IF changes = <<>> THEN md
    ELSE LET c == Head(changes)
             md1 == IF c.kind = "appearance"
                    THEN [md EXCEPT !.var_appearances = Append(@, c.rec)]
                    ELSE [md EXCEPT !.var_modifications = Append(@, c.rec)]
         IN StoreChanges(md1, Tail(changes))

\* any(generator): the generator is resumed only until its first change, every
\* change record being truthy, so only that change is stored.
AnyConsumed(changes) == IF changes = <<>> THEN <<>> ELSE <<Head(changes)>>

\* --------------------------------------------------------------- trace_flow
\* Case 1 without the widening of the tracking.
Widen_Never(md, stored) == md

\* Case 1: if any change happened, track all ids appearing in this node.
Widen(md, stored) ==
    IF stored # <<>> THEN add_tracking(md, find_names(md.code_ast)) ELSE md

\* Case 1: current is not a call site.
Case1 ==
    /\ pc = "walk"
    /\ current # ROOT
    /\ ~is_callsite(current)
    /\ \E order \in Orders(metadata[next].tracking) :
         LET synced == sync_tracking_with(metadata[current], metadata[next])
             stored == AnyConsumed(VarChanges(synced, metadata[next], order))
             changed == StoreChanges(synced, stored)
             widened == Widen(changed, stored)
         IN IF node[current].frame_id # node[next].frame_id
            THEN /\ pc' = "error"
                 /\ metadata' = [metadata EXCEPT ![current] = synced]
                 /\ UNCHANGED <<current, next>>
            ELSE /\ metadata' = [metadata EXCEPT ![current] = widened]
                 /\ next' = current
                 /\ current' = node[current].prev
                 /\ pc' = "walk"
    /\ UNCHANGED <<node, flow, cm, trace_pass, first_pass>>
    /\ visits' = Append(visits, <<current, 1>>)
    /\ UNCHANGED yielded
    /\ UNCHANGED recording

\* TrackingMetadata.set_param_arg_mapping, given the mapping get_param_to_arg
\* returned: arg_to_param keeps one parameter per argument identifier, the one
\* of the pair assigned last (param_order is the dict's iteration order).
RECURSIVE InvertMapping(_, _, _)
InvertMapping(param_to_arg, param_order, acc) ==
    IF param_order = <<>> THEN acc
    ELSE LET p == Head(param_order)
             args == param_to_arg[p]
             acc1 == [a \in DOMAIN acc \cup args |->
                        IF a \in args THEN p ELSE acc[a]]
         IN InvertMapping(param_to_arg, Tail(param_order), acc1)

set_param_arg_mapping(md, param_to_arg, param_order) ==
    [md EXCEPT !.param_to_arg = param_to_arg,
               !.arg_to_param = InvertMapping(param_to_arg, param_order,
                                              [a \in {} |-> "x"])]

\* TrackingMetadata.get_args
get_args(md) == UNION {md.param_to_arg[p] : p \in DOMAIN md.param_to_arg}

\* One order of iteration for each set of param_to_arg.
ArgOrders(param_to_arg) ==
    {f \in [DOMAIN param_to_arg -> UNION {Orders(param_to_arg[p]) :
                                          p \in DOMAIN param_to_arg}] :
       \A p \in DOMAIN param_to_arg : f[p] \in Orders(param_to_arg[p])}

\* The switch record with the two identifiers exchanged.
Switch_Swapped(md, arg_id, identifier) ==
    VarSwitch(identifier, arg_id, md.vars[arg_id])

\* Case 2: the VarSwitch of one argument identifier.
Switch(md, arg_id, identifier) ==
    VarSwitch(arg_id, identifier, md.vars[arg_id])

\* Case 2, inner loop: for arg_id in current.param_to_arg[identifier].
\* current.vars[arg_id] raises KeyError for an identifier vars lacks.
RECURSIVE SwitchArgs(_, _, _)
SwitchArgs(md, identifier, arg_order) ==
    IF arg_order = <<>> THEN [md |-> md, ok |-> TRUE]
    ELSE LET arg_id == Head(arg_order)
             tracked == add_tracking(md, {arg_id})
         IN IF arg_id \notin DOMAIN md.vars
            THEN [md |-> tracked, ok |-> FALSE]
            ELSE SwitchArgs(
                   [tracked EXCEPT !.var_switches =
                      Append(@, Switch(md, arg_id, identifier))],
                   identifier, Tail(arg_order))

\* Case 2 without the skip of self.
SkipsSelf_Never(is_init, identifier) == FALSE

\* Case 2: the 'self' of an __init__ frame is not passed in by the caller.
SkipsSelf(is_init, identifier) == is_init /\ identifier = "self"

\* Case 2, outer loop: for identifier in next.tracking.
\* current.param_to_arg[identifier] raises KeyError for a missing key.
RECURSIVE SwitchParams(_, _, _, _)
SwitchParams(md, is_init, order, arg_orders) ==
    IF order = <<>> THEN [md |-> md, ok |-> TRUE]
    ELSE LET identifier == Head(order)
         IN IF SkipsSelf(is_init, identifier)
            THEN SwitchParams(md, is_init, Tail(order), arg_orders)
            ELSE IF identifier \notin DOMAIN md.param_to_arg
            THEN [md |-> md, ok |-> FALSE]
            ELSE LET r == SwitchArgs(md, identifier, arg_orders[identifier])
                 IN IF r.ok
                    THEN SwitchParams(r.md, is_init, Tail(order), arg_orders)
                    ELSE r

\* Case 2: current is a call site and next is the first node of its callee.
Case2 ==
    /\ pc = "walk"
    /\ current # ROOT
    /\ is_callsite(current)
    /\ node[current].step_into = next
    /\ \E order \in Orders(metadata[next].tracking) :
       \E arg_orders \in ArgOrders(metadata[current].param_to_arg) :
         LET r == SwitchParams(metadata[current],
                               node[next].frame_belonging_type = INIT_METHOD,
                               order, arg_orders)
         IN /\ metadata' = [metadata EXCEPT ![current] = r.md]
            /\ IF r.ok
               THEN /\ next' = current
                    /\ current' = node[current].prev
                    /\ pc' = "walk"
               ELSE /\ pc' = "error"
                    /\ UNCHANGED <<current, next>>
    /\ UNCHANGED <<node, flow, cm, trace_pass, first_pass>>
    /\ visits' = Append(visits, <<current, 2>>)
    /\ UNCHANGED yielded
    /\ UNCHANGED recording

\* Case 3, the loop over the changes of current against next, on the callee's
\* last node returned_from.
\* The loop body without the branch for argument identifiers.
PropagateChange_NoArgs(rf_md, id, args, arg_to_param, ids_assigned_to, is_init) ==
    IF ~is_init /\ id \in ids_assigned_to
    THEN add_tracking([rf_md EXCEPT !.is_relevant_return = TRUE],
                      find_names(rf_md.code_ast))
    ELSE rf_md

\* The loop body that marks the return for every change.
PropagateChange_AlwaysReturn(rf_md, id, args, arg_to_param, ids_assigned_to, is_init) ==
    LET md1 == IF id \in args
               THEN add_tracking(rf_md, {arg_to_param[id]})
               ELSE rf_md
    IN IF ~is_init
       THEN add_tracking([md1 EXCEPT !.is_relevant_return = TRUE],
                         find_names(md1.code_ast))
       ELSE md1

\* The loop body without the 'continue' for __init__.
PropagateChange_InitReturns(rf_md, id, args, arg_to_param, ids_assigned_to, is_init) ==
    LET md1 == IF id \in args
               THEN add_tracking(rf_md, {arg_to_param[id]})
               ELSE rf_md
    IN IF id \in ids_assigned_to
       THEN add_tracking([md1 EXCEPT !.is_relevant_return = TRUE],
                         find_names(md1.code_ast))
       ELSE md1

PropagateChange(rf_md, id, args, arg_to_param, ids_assigned_to, is_init) ==
    LET md1 == IF id \in args
               THEN add_tracking(rf_md, {arg_to_param[id]})
               ELSE rf_md
    IN IF ~is_init /\ id \in ids_assigned_to
       THEN add_tracking([md1 EXCEPT !.is_relevant_return = TRUE],
                         find_names(md1.code_ast))
       ELSE md1

RECURSIVE PropagateChanges(_, _, _, _, _, _)
PropagateChanges(rf_md, changes, args, arg_to_param, ids_assigned_to, is_init) ==
    IF changes = <<>> THEN rf_md
    ELSE PropagateChanges(
           PropagateChange(rf_md, Head(changes).rec.id, args, arg_to_param,
                           ids_assigned_to, is_init),
           Tail(changes), args, arg_to_param, ids_assigned_to, is_init)

\* The comparison with vars_before_return that treats every value as equal.
BeforeReturnChange_None(md, var_id) == <<>>

\* Node.update_var_changes_before_return, the change of one identifier
\* between vars and vars_before_return.
BeforeReturnChange(md, var_id) ==
    VarChange(md, [vars |-> md.vars_before_return[1]], var_id)

\* Node.update_var_changes_before_return, tracking iterated in order.
\* vars_before_return[var_id] raises for None and for a missing key.
RECURSIVE update_var_changes_before_return(_, _)
update_var_changes_before_return(md, order) ==
    IF order = <<>> THEN [md |-> md, ok |-> TRUE]
    ELSE LET var_id == Head(order)
         IN IF md.vars_before_return = None
            THEN [md |-> md, ok |-> FALSE]
            ELSE IF var_id \notin DOMAIN md.vars_before_return[1]
            THEN [md |-> md, ok |-> FALSE]
            ELSE update_var_changes_before_return(
                   StoreChanges(md, BeforeReturnChange(md, var_id)),
                   Tail(order))

\* The walk that goes on from the first node of the callee.
ReturnedFrom_First(n) == node[n].step_into

\* returned_from = current.returned_from
ReturnedFrom(n) == node[n].returned_from

\* Case 3: current is a call site and next is the node after the call.
Case3 ==
    /\ pc = "walk"
    /\ current # ROOT
    /\ is_callsite(current)
    /\ node[current].step_into # next
    /\ LET returned_from == ReturnedFrom(current)
           synced == sync_tracking_with(metadata[current], metadata[next])
           args == get_args(synced)
           ids_assigned_to == find_names(synced.code_ast) \ args
       IN IF returned_from = NoNode
          THEN /\ pc' = "error"
               /\ metadata' = [metadata EXCEPT ![current] = synced]
               /\ UNCHANGED <<current, next>>
          ELSE
          LET is_init == node[returned_from].frame_belonging_type = INIT_METHOD
              rf0 == IF is_init
                     THEN add_tracking(metadata[returned_from], {"self"})
                     ELSE metadata[returned_from]
          IN IF node[current].frame_id # node[next].frame_id
             THEN /\ pc' = "error"
                  /\ metadata' = [metadata EXCEPT ![current] = synced,
                                                  ![returned_from] = rf0]
                  /\ UNCHANGED <<current, next>>
             ELSE
             \E order \in Orders(metadata[next].tracking) :
               LET changes == VarChanges(synced, metadata[next], order)
                   cur1 == StoreChanges(synced, changes)
                   rf1 == PropagateChanges(rf0, changes, args,
                                           synced.arg_to_param,
                                           ids_assigned_to, is_init)
               IN \E rf_order \in Orders(rf1.tracking) :
                    LET r == update_var_changes_before_return(rf1, rf_order)
                    IN /\ metadata' = [metadata EXCEPT ![current] = cur1,
                                                       ![returned_from] = r.md]
                       /\ IF r.ok
                          THEN /\ next' = returned_from
                               /\ current' = node[returned_from].prev
                               /\ pc' = "walk"
                          ELSE /\ pc' = "error"
                               /\ UNCHANGED <<current, next>>
    /\ UNCHANGED <<node, flow, cm, trace_pass, first_pass>>
    /\ visits' = Append(visits, <<current, 3>>)
    /\ UNCHANGED yielded
    /\ UNCHANGED recording

\* The loop condition fails: current is flow.ROOT.
Finish ==
    /\ pc = "walk"
    /\ current = ROOT
    /\ pc' = "done"
    /\ UNCHANGED <<node, metadata, flow, current, next>>
    /\ UNCHANGED <<cm, trace_pass, first_pass>>
    /\ UNCHANGED visits
    /\ UNCHANGED yielded
    /\ UNCHANGED recording

\* trace_flow called once more on the flow it has traced: the cursors start
\* from the target again, the metadata of the nodes is what the first call left.
SecondPass ==
    /\ pc = "done"
    /\ trace_pass = "first"
    /\ trace_pass' = "second"
    /\ first_pass' = metadata
    /\ visits' = <<>>
    /\ UNCHANGED yielded
    /\ current' = node[flow.target].prev
    /\ next' = flow.target
    /\ pc' = "walk"
    /\ UNCHANGED <<node, metadata, flow, cm>>
    /\ UNCHANGED recording

\* ------------------------------------------------------------------- flows
RootFrame == <<0>>

CalleeFrame == <<0, 0>>

\* Statements of a frame over the identifiers S: nothing referenced, one
\* name loaded, or an assignment of one name from the rest.
Stmts(S) == {Stmt({}, L) : L \in SUBSET S}

\* Flow.__init__ and trace_flow's first line, for a graph g with metadata m
\* that was linked by hand, without computations, as flow_test.create_flow
\* does.
StartTrace(g, m, start, target, target_id) ==
    /\ node = [n \in DOMAIN g |->
                 IF n = start THEN [g[n] EXCEPT !.prev = ROOT]
                 ELSE IF n = target THEN [g[n] EXCEPT !.is_target = TRUE]
                 ELSE g[n]]
    /\ metadata = [m EXCEPT ![target] = update_target_id(@, target_id)]
    /\ flow = [start |-> start, target |-> target]
    /\ current = g[target].prev
    /\ next = target
    /\ pc = "walk"
    /\ cm = <<>>
    /\ trace_pass = "first"
    /\ first_pass = <<>>
    /\ visits = <<>>
    /\ yielded = <<>>
    /\ NotRecording

\* Three statements of the root frame, the last one the register call.
\* Values being compared for equality only, the registered value is 0; the
\* other identifiers of the target's snapshot are never read.
InitLine ==
    \E target_id \in RootIds :
    \E v1 \in Snapshots(RootIds, Vals), v2 \in Snapshots(RootIds, Vals),
       v3 \in [{target_id} -> {0}] :
    \E a1 \in Stmts(RootIds), a2 \in Stmts(RootIds) :
       /\ StartTrace(
            <<Node(RootFrame, NoNode, 2, NoNode, NoNode, NEITHER),
              Node(RootFrame, 1, 3, NoNode, NoNode, NEITHER),
              Node(RootFrame, 2, NoNode, NoNode, NoNode, NEITHER)>>,
            <<TrackingMetadata(v1, a1, None),
              TrackingMetadata(v2, a2, None),
              TrackingMetadata(v3, Stmt({}, {target_id}), None)>>,
            1, 3, target_id)

\* The mappings get_param_to_arg may hand to a call of a callee with the
\* parameters (self, x): no argument, one argument naming x, y or both, and
\* the receiver bound as well, to the same or to another identifier.
ParamToArgs ==
    { <<>>,
      [p \in {"x"} |-> {"x"}],
      [p \in {"x"} |-> {"y"}],
      [p \in {"x"} |-> {"x", "y"}],
      [p \in {"self", "x"} |-> {"x"}],
      [p \in {"self", "x"} |-> IF p = "self" THEN {"y"} ELSE {"x"}] }

\* Parameters in the order of the callee's signature.
ParamOrder(param_to_arg) ==
    SelectSeq(<<"self", "x">>, LAMBDA p : p \in DOMAIN param_to_arg)

\* Values a snapshot taken after vs may hold for the identifiers of vs.
Later(vs) == [DOMAIN vs -> Vals]

\* A call from the root frame: 1 is the start, 2 the call statement, 3 and 4
\* the two statements of the callee, 5 the statement after the call.
CallGraph(fbt) ==
    <<Node(RootFrame, NoNode, 2, NoNode, NoNode, NEITHER),
      Node(RootFrame, 1, 5, 3, 4, NEITHER),
      Node(CalleeFrame, 2, 4, NoNode, NoNode, fbt),
      Node(CalleeFrame, 3, NoNode, NoNode, NoNode, fbt),
      Node(RootFrame, 2, NoNode, NoNode, NoNode, NEITHER)>>

\* The same call while the callee still runs: no statement after the call.
UnfinishedCall(fbt) ==
    [n \in 1..4 |-> IF n = 2 THEN [CallGraph(fbt)[n] EXCEPT !.next = NoNode]
                    ELSE CallGraph(fbt)[n]]

\* register(x) is the statement after the call: the walk returns from the call.
\* The caller holds every identifier it passes; the start node is the first
\* statement of the program, before which nothing is defined.
InitAfterCall ==
    \E v5 \in [{"x"} -> {0}] :
    \E v2 \in Snapshots(RootIds, Vals) :
    \E targets \in {{}, {"x"}} :
    \E param_to_arg \in ParamToArgs :
    \E fbt \in {INIT_METHOD, NEITHER} :
    \E v4 \in Snapshots(CalleeIds, Vals) :
    \E a4 \in Stmts(CalleeIds) :
    \E vbr \in Later(v4) :
       /\ "y" \in DOMAIN v2 => v2["y"] = 0
       /\ \A p \in DOMAIN param_to_arg : param_to_arg[p] \subseteq DOMAIN v2
       /\ StartTrace(
            CallGraph(fbt),
            <<TrackingMetadata([i \in {} |-> 0], Stmt({}, {}), None),
              set_param_arg_mapping(
                TrackingMetadata(v2, Stmt(targets, UNION {param_to_arg[p] :
                                            p \in DOMAIN param_to_arg}), None),
                param_to_arg, ParamOrder(param_to_arg)),
              TrackingMetadata([i \in CalleeIds |-> 0], Stmt({}, CalleeIds), None),
              TrackingMetadata(v4, a4, Some(vbr)),
              TrackingMetadata(v5, Stmt({}, {"x"}), None)>>,
            1, 5, "x")

\* register() is the last statement of the callee: the walk leaves the callee
\* through the call statement.
InitInCallee ==
    \E target_id \in CalleeIds :
    \E v4 \in Snapshots(CalleeIds, Vals) :
    \E v3 \in Snapshots(CalleeIds, Vals) :
    \E a3 \in {Stmt({}, {}), Stmt({}, CalleeIds)} :
    \E param_to_arg \in ParamToArgs :
    \E fbt \in {INIT_METHOD, NEITHER} :
    \E v2 \in Snapshots(RootIds, {0}) :
    \E v1 \in {[i \in {} |-> 0], [i \in RootIds |-> 0], [i \in RootIds |-> 1]} :
       /\ target_id \in DOMAIN v4
       /\ v4[target_id] = 0
       /\ StartTrace(
            UnfinishedCall(fbt),
            <<TrackingMetadata(v1, Stmt({}, RootIds), None),
              set_param_arg_mapping(
                TrackingMetadata(v2, Stmt({}, UNION {param_to_arg[p] :
                                            p \in DOMAIN param_to_arg}), None),
                param_to_arg, ParamOrder(param_to_arg)),
              TrackingMetadata(v3, a3, None),
              TrackingMetadata(v4, Stmt({}, {target_id}), None)>>,
            1, 4, target_id)

\* The straight-line program a = 1; b = a; c = b + 1; cyberbrain.register(c):
\* the snapshot of a node is the state before its statement runs.
ScenarioAVars ==
    <<[i \in {} |-> 0],
      [i \in {"a"} |-> 1],
      [i \in {"a", "b"} |-> 1],
      [i \in {"a", "b", "c"} |-> IF i = "c" THEN 2 ELSE 1]>>

ScenarioAStmts ==
    <<Stmt({"a"}, {}), Stmt({"b"}, {"a"}), Stmt({"c"}, {"b"}),
      Stmt({}, {"cyberbrain", "c"})>>

InitScenarioA ==
    StartTrace(
      <<Node(RootFrame, NoNode, 2, NoNode, NoNode, NEITHER),
        Node(RootFrame, 1, 3, NoNode, NoNode, NEITHER),
        Node(RootFrame, 2, 4, NoNode, NoNode, NEITHER),
        Node(RootFrame, 3, NoNode, NoNode, NoNode, NEITHER)>>,
      [n \in 1..4 |-> TrackingMetadata(ScenarioAVars[n], ScenarioAStmts[n], None)],
      1, 4, "c")

Init == InitLine \/ InitAfterCall \/ InitInCallee \/ InitScenarioA

Next == Case1 \/ Case2 \/ Case3 \/ Finish

Spec == Init /\ [][Next]_vars

\* trace_flow called twice on the same flow.
NextTwice == Case1 \/ Case2 \/ Case3 \/ Finish \/ SecondPass

SpecTwice == Init /\ [][NextTwice]_vars

\* ------------------------------------------------------------ code strings
\* A code string is the list of its tokens: names, literals and the marks
\* below.  No name of the programs modelled ends another one, so a search for
\* a call's text finds in the tokens what str.replace finds in the characters.
Marks == {"(", ")", ",", "=", "+", ".", "return"}

Literals == {"1", "2", "[1]"}

\* f"r{i}_", the name replace_calls gives to the value of the i-th call.
IntermediateNames == <<"r0_", "r1_", "r2_", "r3_">>

Intermediate(i) == IntermediateNames[i + 1]

\* re.match(r"r[\d]+_", id)
IsIntermediate(id) == id \in Range(IntermediateNames)

Min(S) == CHOOSE m \in S : \A o \in S : m <= o

\* The number of parentheses open before position k.
Depth(tokens, k) ==
    Cardinality({j \in 1..(k - 1) : tokens[j] = "("})
    - Cardinality({j \in 1..(k - 1) : tokens[j] = ")"})

\* The first position of the mark t outside every parenthesis, 0 without one.
TopLevel(tokens, t) ==
    LET at == {k \in DOMAIN tokens : tokens[k] = t /\ Depth(tokens, k) = 0}
    IN IF at = {} THEN 0 ELSE Min(at)

\* ast.Name: a name token that is not the attribute after a dot.
IsName(tokens, k) ==
    /\ tokens[k] \notin Marks \cup Literals
    /\ (k = 1 \/ tokens[k - 1] # ".")

Names(tokens) == {tokens[k] : k \in {j \in DOMAIN tokens : IsName(tokens, j)}}

\* utils.parse_code_str for a single statement: its kind, the names it stores
\* to and loads (what find_names reads), and the tokens of its value.
parse_code_str(code_str) ==
    LET eq == TopLevel(code_str, "=")
        value == IF code_str # <<>> /\ code_str[1] = "return"
                 THEN Tail(code_str)
                 ELSE SubSeq(code_str, eq + 1, Len(code_str))
    IN [kind |-> IF code_str # <<>> /\ code_str[1] = "return" THEN "Return"
                 ELSE IF eq > 0 THEN "Assign" ELSE "Expr",
        targets |-> Names(SubSeq(code_str, 1, eq - 1)),
        loads |-> Names(value),
        value |-> value]

\* isinstance(value, ast.Name)
IsNameExpr(value) == Len(value) = 1 /\ IsName(value, 1)

\* isinstance(value, ast.Call): a name or an attribute of names, then one
\* pair of parentheses that closes with the last token.
IsCallExpr(value) ==
    LET open == TopLevel(value, "(")
    IN /\ open > 1
       /\ value[Len(value)] = ")"
       /\ \A k \in 1..(open - 1) : value[k] \notin (Marks \ {"."}) \cup Literals
       /\ \A k \in (open + 1)..Len(value) : Depth(value, k) >= 1

\* The tokens of each positional argument of a call expression.
RECURSIVE SplitArgs(_)
SplitArgs(tokens) ==
    IF tokens = <<>> THEN <<>>
    ELSE LET comma == TopLevel(tokens, ",")
         IN IF comma = 0 THEN <<tokens>>
            ELSE <<SubSeq(tokens, 1, comma - 1)>>
                 \o SplitArgs(SubSeq(tokens, comma + 1, Len(tokens)))

CallArgs(value) ==
    SplitArgs(SubSeq(value, TopLevel(value, "(") + 1, Len(value) - 1))

\* An argument of the form name = value is an ast.keyword.
IsKeyword(arg) == TopLevel(arg, "=") > 0

RECURSIVE Positional(_)
Positional(args) ==
    IF args = <<>> THEN <<>>
    ELSE IF IsKeyword(Head(args)) THEN Positional(Tail(args))
    ELSE <<Head(args)>> \o Positional(Tail(args))

RECURSIVE Keywords(_)
Keywords(args) ==
    IF args = <<>> THEN <<>>
    ELSE IF IsKeyword(Head(args)) THEN <<Head(args)>> \o Keywords(Tail(args))
    ELSE Keywords(Tail(args))

\* itertools.chain(pos_args, kw_args)
ChainArgs(value) ==
    Positional(CallArgs(value)) \o Keywords(CallArgs(value))

\* utils.find_names of an argument: the names of the expression, which for a
\* keyword is its value.
ArgNames(arg) ==
    IF IsKeyword(arg)
    THEN Names(SubSeq(arg, TopLevel(arg, "=") + 1, Len(arg)))
    ELSE Names(arg)

\* inspect.ArgInfo: the declared parameters, the names of *args and **kwargs
\* (None without one), and of locals the number of values each of the two
\* holds.
ArgInfo(args, varargs, keywords, locals) ==
    [args |-> args, varargs |-> varargs, keywords |-> keywords,
     locals |-> locals]

\* [name] * n
Copies(name, n) == [k \in 1..n |-> name]

\* get_param_arg_pairs: the parameter list with *args and **kwargs expanded
\* to their length.
Parameters(arg_info) ==
    arg_info.args
    \o (IF arg_info.varargs # None
        THEN Copies(arg_info.varargs[1], arg_info.locals[arg_info.varargs[1]])
        ELSE <<>>)
    \o (IF arg_info.keywords # None
        THEN Copies(arg_info.keywords[1],
                    arg_info.locals[arg_info.keywords[1]])
        ELSE <<>>)

\* callsite.get_param_to_arg, given the expanded parameter list: the pairs
\* zip(arguments, parameters) gives, each parameter mapped to the names of
\* its argument; a parameter paired twice keeps its last argument.
get_param_to_arg(value, parameters) ==
    LET args == ChainArgs(value)
        paired == 1..(IF Len(args) < Len(parameters) THEN Len(args)
                      ELSE Len(parameters))
    IN [p \in {parameters[k] : k \in paired} |->
          ArgNames(args[CHOOSE k \in paired :
                          /\ parameters[k] = p
                          /\ \A j \in paired : parameters[j] = p => j <= k])]

\* The order in which the dict of get_param_to_arg holds its keys.
RECURSIVE KeyOrder(_, _)
KeyOrder(keys, seen) ==
    IF keys = <<>> THEN <<>>
    ELSE IF Head(keys) \in seen THEN KeyOrder(Tail(keys), seen)
    ELSE <<Head(keys)>> \o KeyOrder(Tail(keys), seen \cup {Head(keys)})

\* str.replace(old, new, 1)
ReplaceFirst(s, old, new) ==
    LET at == {k \in 1..(Len(s) - Len(old) + 1) :
                 SubSeq(s, k, k + Len(old) - 1) = old}
    IN IF at = {} THEN s
       ELSE SubSeq(s, 1, Min(at) - 1) \o new
            \o SubSeq(s, Min(at) + Len(old), Len(s))

\* for inner_call, intermediate in ast_to_intermediate.items(): replace
RECURSIVE ReplaceInner(_, _)
ReplaceInner(code_str, ast_to_intermediate) ==
    IF ast_to_intermediate = <<>> THEN code_str
    ELSE ReplaceInner(
           ReplaceFirst(code_str, Head(ast_to_intermediate)[1],
                        <<Head(ast_to_intermediate)[2]>>),
           Tail(ast_to_intermediate))

\* ast_to_intermediate[key] = value: a dict keeps the place of a key it has.
DictSet(d, key, value) ==
    IF \E k \in DOMAIN d : d[k][1] = key
    THEN [k \in DOMAIN d |-> IF d[k][1] = key THEN <<key, value>> ELSE d[k]]
    ELSE Append(d, <<key, value>>)

\* ------------------------------------------------------------- computations
\* basis._dummy, the return value of a node whose frame has not returned.
dummy == "_dummy"

\* NodeType
LINE == "LINE"

CALL == "CALL"

\* computation.Line as add_computation stores it for a line event.
Line(code_str, surrounding, vs) ==
    [event_type |-> "line",
     code_str |-> code_str,
     surrounding |-> surrounding,
     vars |-> vs,
     vars_before_return |-> None,
     return_value |-> None,
     parameters |-> <<>>]

\* computation.Call as Call.create builds it: the text of the call
\* expression, the surrounding of its logical line, and of arg_values the
\* names of the callee's parameters.
Call(code_str, surrounding, vs, parameters) ==
    [event_type |-> "call",
     code_str |-> code_str,
     surrounding |-> surrounding,
     vars |-> vs,
     vars_before_return |-> None,
     return_value |-> None,
     parameters |-> parameters]

\* add_computation for a return event, on the last computation of the frame.
Returned(comp, vars_before_return, return_value) ==
    [comp EXCEPT !.vars_before_return = Some(vars_before_return),
                 !.return_value = Some(return_value)]

\* ComputationManager: the keys of frame_groups in the order of the dict, the
\* computations of each, the frame_belonging_type of each key, and the place
\* <<frame id, index>> of the target computation.
Computations(order, frame_groups, fbt, target) ==
    [order |-> order,
     frame_groups |-> frame_groups,
     frame_belonging_type |-> fbt,
     target |-> target]

\* The position of a frame id among the keys.
KeyIndex(c, frame_id) == CHOOSE k \in DOMAIN c.order : c.order[k] = frame_id

\* The number of nodes build_flow has created before those of the k-th key.
RECURSIVE NodesBefore(_, _)
NodesBefore(c, k) ==
    IF k = 1 THEN 0
    ELSE NodesBefore(c, k - 1) + Len(c.frame_groups[c.order[k - 1]])

\* The node build_flow creates for the k-th computation of a frame: nodes
\* are numbered in the order of their creation.
NodeOf(c, frame_id, k) == NodesBefore(c, KeyIndex(c, frame_id)) + k

\* The frame and the index of the computation a node was created for.
FrameOfNode(c, n) ==
    CHOOSE f \in Range(c.order) :
       n \in (NodeOf(c, f, 1))..(NodeOf(c, f, Len(c.frame_groups[f])))

IndexOfNode(c, n) == n - NodesBefore(c, KeyIndex(c, FrameOfNode(c, n)))

NodeCount(c) == NodesBefore(c, Len(c.order) + 1)

\* ---------------------------------------------------------------- build_flow
\* build_flow, first loop: one node per computation, linked to the node
\* before it in its frame.
CreateNode(c, n) ==
    LET f == FrameOfNode(c, n)
        k == IndexOfNode(c, n)
        comp == c.frame_groups[f][k]
    IN Node(f,
            IF k > 1 THEN n - 1 ELSE NoNode,
            IF k < Len(c.frame_groups[f]) THEN n + 1 ELSE NoNode,
            NoNode, NoNode, c.frame_belonging_type[f])
       @@ [type |-> IF comp.event_type = "line" THEN LINE ELSE CALL]

CreateMetadata(c, n) ==
    LET comp == c.frame_groups[FrameOfNode(c, n)][IndexOfNode(c, n)]
    IN TrackingMetadata(comp.vars, parse_code_str(comp.code_str),
                        IF comp.event_type = "line"
                        THEN comp.vars_before_return ELSE None)
       @@ [code_str |-> comp.code_str,
           return_value |-> IF comp.event_type = "line"
                               /\ comp.return_value # None
                            THEN comp.return_value[1] ELSE dummy]

\* dict.update
Update(vs, other) ==
    [id \in DOMAIN vs \cup DOMAIN other |->
       IF id \in DOMAIN other THEN other[id] ELSE vs[id]]

\* The callee's nodes looked up under the key of the first call of the frame.
CalleeKey_First(frame_id, i) == Append(frame_id, 0)

\* The callee's nodes looked up under the key of the frame itself.
CalleeKey_Self(frame_id, i) == frame_id

\* node.frame_id + (i,)
CalleeKey(frame_id, i) == Append(frame_id, i)

\* frame_groups[key] of the defaultdict is a non-empty list.
HasNodes(c, key) == key \in Range(c.order) /\ c.frame_groups[key] # <<>>

\* A call without the nodes of its callee is left without its edges.
MissingCallee_Skipped(b) == b

\* frame_groups[key][0] of an empty list raises IndexError.
MissingCallee(b) == [b EXCEPT !.ok = FALSE]

\* The number of pairs zip(arguments, parameters) gives.
Paired(args, parameters) ==
    IF Len(args) < Len(parameters) THEN Len(args) ELSE Len(parameters)

\* get_param_arg_pairs that takes the arguments in the reverse order.
get_param_arg_pairs_Reversed(value, arg_info) ==
    LET args == ChainArgs(value)
        parameters == Parameters(arg_info)
    IN [k \in 1..Paired(args, parameters) |->
          <<args[Len(args) + 1 - k], parameters[k]>>]

\* callsite.get_param_arg_pairs: zip(chain(pos_args, kw_args), parameters)
get_param_arg_pairs(value, arg_info) ==
    LET args == ChainArgs(value)
        parameters == Parameters(arg_info)
    IN [k \in 1..Paired(args, parameters) |-> <<args[k], parameters[k]>>]

\* The callee's first node linked back to the node before the call.
StepIntoPrev_Before(nodes, n) == nodes[n].prev

\* node.step_into.prev = node
StepIntoPrev(nodes, n) == n

\* replace_calls, the body of the loop over the nodes of a logical line, for
\* the node n.  b holds the nodes and the metadata so far, the count i of the
\* calls met in the frame and the two dicts of the line.  [0] of an empty
\* list raises IndexError; get_param_arg_pairs raises AttributeError for a
\* value that is no call.
ReplaceNode(c, b, n) ==
    LET is_call == b.node[n].type = CALL
        replaced == ReplaceInner(b.md[n].code_str, b.ast_to_intermediate)
        key == CalleeKey(b.node[n].frame_id, b.i)
        step_into == NodeOf(c, key, 1)
        returned_from == NodeOf(c, key, Len(c.frame_groups[key]))
        code_str == IF is_call THEN <<Intermediate(b.i), "=">> \o replaced
                    ELSE replaced
        code_ast == parse_code_str(code_str)
        md1 == [b.md[n] EXCEPT !.vars = Update(@, b.intermediate_vars),
                               !.code_str = code_str,
                               !.code_ast = code_ast]
        parameters == c.frame_groups[FrameOfNode(c, n)][IndexOfNode(c, n)]
                        .parameters
        param_to_arg == get_param_to_arg(code_ast.value, parameters)
        param_order == KeyOrder(SubSeq(parameters, 1,
                                       Paired(ChainArgs(code_ast.value),
                                              parameters)), {})
    IN IF ~is_call
       THEN [b EXCEPT !.md[n] = md1]
       ELSE IF ~HasNodes(c, key)
       THEN MissingCallee(b)
       ELSE IF ~IsCallExpr(code_ast.value)
       THEN [b EXCEPT !.ok = FALSE]
       ELSE [b EXCEPT
               !.node[n].step_into = step_into,
               !.node[n].returned_from = returned_from,
               !.node[step_into].prev = StepIntoPrev(b.node, n),
               !.md[n] = set_param_arg_mapping(md1, param_to_arg, param_order),
               !.i = @ + 1,
               !.ast_to_intermediate = DictSet(@, replaced, Intermediate(b.i)),
               !.intermediate_vars =
                   Update(@, [id \in {Intermediate(b.i)} |->
                                b.md[returned_from].return_value])]

\* The cleanup that leaves the line node in the frame.
Unlink_Never(nodes, n) == nodes

\* prev.next = node.next; if node.next: node.next.prev = prev
Unlink(nodes, n) ==
    LET prev == nodes[n].prev
        nxt == nodes[n].next
    IN [m \in DOMAIN nodes |->
          IF m = prev THEN [nodes[m] EXCEPT !.next = nxt]
          ELSE IF m = nxt THEN [nodes[m] EXCEPT !.prev = prev]
          ELSE nodes[m]]

\* prev.code_str.startswith(text)
StartsWith(code_str, text) ==
    Len(code_str) >= Len(text) /\ SubSeq(code_str, 1, Len(text)) = text

\* code_str.split("=", 1)[1].lstrip(): what follows the first '='.
AfterEquals(code_str) ==
    SubSeq(code_str,
           Min({k \in DOMAIN code_str : code_str[k] = "="}) + 1,
           Len(code_str))

\* replace_calls, the special cases after the nodes of a logical line, n being
\* the last of them: a line that is only rN_, or an assignment of rN_, is
\* taken out of the frame and the call node before it gets the line's text.
\* A failed assert raises AssertionError.
SpecialCases(b, n) ==
    LET stmt == b.md[n].code_ast
        lhs_is_ri == IsNameExpr(stmt.value) /\ IsIntermediate(stmt.value[1])
        prev == b.node[n].prev
        eq == TopLevel(b.md[n].code_str, "=")
    IN IF stmt.kind = "Expr" /\ lhs_is_ri
       THEN IF b.node[n].type # LINE
               \/ prev = NoNode
               \/ b.node[prev].type # CALL
               \/ ~StartsWith(b.md[prev].code_str, stmt.value)
            THEN [b EXCEPT !.ok = FALSE]
            ELSE [b EXCEPT
                    !.node = Unlink(@, n),
                    !.md[prev].code_str = AfterEquals(@),
                    !.md[prev].code_ast = parse_code_str(b.md[n].code_str)]
       ELSE IF stmt.kind = "Assign" /\ lhs_is_ri
       THEN IF prev = NoNode
               \/ b.node[prev].type # CALL
               \/ ~StartsWith(b.md[prev].code_str, stmt.value \o <<"=">>)
            THEN [b EXCEPT !.ok = FALSE]
            ELSE [b EXCEPT
                    !.node = Unlink(@, n),
                    !.md[prev].code_ast =
                        [@ EXCEPT !.targets = stmt.targets],
                    !.md[prev].code_str =
                        SubSeq(b.md[n].code_str, 1, eq)
                        \o b.md[prev].code_ast.value]
       ELSE b

\* replace_calls for the nodes of one frame from the k-th on: itertools.groupby
\* ends a logical line where the surrounding changes, and each line starts
\* with empty dicts.
RECURSIVE ReplaceFrom(_, _, _, _)
ReplaceFrom(c, b, frame_id, k) ==
    LET comps == c.frame_groups[frame_id]
        n == NodeOf(c, frame_id, k)
        b1 == ReplaceNode(c, b, n)
        ends == k = Len(comps)
                \/ comps[k + 1].surrounding # comps[k].surrounding
        b2 == IF ends
              THEN [SpecialCases(b1, n) EXCEPT
                      !.ast_to_intermediate = <<>>,
                      !.intermediate_vars = <<>>]
              ELSE b1
    IN IF k > Len(comps) \/ ~b.ok THEN b
       ELSE IF ~b1.ok THEN b1
       ELSE ReplaceFrom(c, b2, frame_id, k + 1)

\* replace_calls: every frame in the order of the dict, i starting from 0.
RECURSIVE replace_calls(_, _, _)
replace_calls(c, b, j) ==
    IF j > Len(c.order) \/ ~b.ok THEN b
    ELSE replace_calls(c,
           ReplaceFrom(c, [b EXCEPT !.i = 0,
                                    !.ast_to_intermediate = <<>>,
                                    !.intermediate_vars = <<>>],
                       c.order[j], 1),
           j + 1)

\* build_flow up to the call of Flow: the nodes, their metadata and whether
\* no exception was raised.
build_flow(c) ==
    replace_calls(c,
                  [node |-> [n \in 1..NodeCount(c) |-> CreateNode(c, n)],
                   md |-> [n \in 1..NodeCount(c) |-> CreateMetadata(c, n)],
                   ok |-> TRUE,
                   i |-> 0,
                   ast_to_intermediate |-> <<>>,
                   intermediate_vars |-> <<>>],
                  1)

\* Flow._update_target_id: the identifier passed to cyberbrain.register.
TargetIdOf(code_str) == CallArgs(code_str)[1][1]

\* build_flow(cm): on success the flow is returned with start and target set
\* as Flow.__init__ sets them; an exception leaves no flow.
BuildFlow ==
    /\ pc = "build"
    /\ LET b == build_flow(cm)
           start == NodeOf(cm, RootFrame, 1)
           target == NodeOf(cm, cm.target[1], cm.target[2])
       IN IF b.ok /\ HasNodes(cm, RootFrame)
             /\ b.md[target].code_str[1] = "cyberbrain"
          THEN /\ node' = [b.node EXCEPT ![start].prev = ROOT,
                                         ![target].is_target = TRUE]
               /\ metadata' = [b.md EXCEPT ![target] =
                                 update_target_id(@, TargetIdOf(@.code_str))]
               /\ flow' = [start |-> start, target |-> target]
               /\ pc' = "built"
          ELSE /\ pc' = "error"
               /\ UNCHANGED <<node, metadata, flow>>
    /\ UNCHANGED <<current, next, cm, trace_pass, first_pass>>
    /\ UNCHANGED visits
    /\ UNCHANGED yielded
    /\ UNCHANGED recording

\* trace_flow's first line on the flow build_flow returned.
BeginTrace ==
    /\ pc = "built"
    /\ current' = node[flow.target].prev
    /\ next' = flow.target
    /\ pc' = "walk"
    /\ UNCHANGED <<node, metadata, flow, cm, trace_pass, first_pass>>
    /\ UNCHANGED visits
    /\ UNCHANGED yielded
    /\ UNCHANGED recording

\* ----------------------------------------------------------------- programs
\* The texts of the calls and lines of the programs below.
CallOf(name, args) == <<name, "(">> \o args \o <<")">>

Assigned(name, value) == <<name, "=">> \o value

Register(id) == <<"cyberbrain", ".", "register", "(", id, ")">>

\* A logical line with the calls traced while it runs, in the order of their
\* call events; each call has its text and the parameters of its callee.
CalledAs(text, parameters) == [text |-> text, parameters |-> parameters]

Statement(text, calls) == [text |-> text, calls |-> calls]

\* f(a) | b = f(a) | b = g(f(a)) | b = f(a) + g(a) | b = f(a) + f(a)
CallLines ==
    LET fa == CallOf("f", <<"a">>)
        ga == CallOf("g", <<"a">>)
        f == CalledAs(fa, <<"x">>)
        g == CalledAs(ga, <<"x">>)
    IN {Statement(fa, <<f>>),
        Statement(Assigned("b", fa), <<f>>),
        Statement(Assigned("b", CallOf("g", fa)),
                  <<f, CalledAs(CallOf("g", fa), <<"x">>)>>),
        Statement(Assigned("b", fa \o <<"+">> \o ga), <<f, g>>),
        Statement(Assigned("b", fa \o <<"+">> \o fa), <<f, f>>)}

\* The bodies of the programs: one line with calls, or the bare call f(a)
\* followed by the line b = g(a).
Bodies ==
    {<<s>> : s \in CallLines}
    \cup {<<Statement(CallOf("f", <<"a">>),
                      <<CalledAs(CallOf("f", <<"a">>), <<"x">>)>>),
            Statement(Assigned("b", CallOf("g", <<"a">>)),
                      <<CalledAs(CallOf("g", <<"a">>), <<"x">>)>>)>>}

\* The computations add_computation has stored for the statements from the
\* j-th on: the Call computations of a line are inserted before its Line.
RECURSIVE CompsOf(_, _, _)
CompsOf(body, j, vs) ==
    IF j > Len(body) THEN <<>>
    ELSE [k \in 1..Len(body[j].calls) |->
            Call(body[j].calls[k].text, j + 1, vs,
                 body[j].calls[k].parameters)]
         \o <<Line(body[j].text, j + 1, vs)>>
         \o CompsOf(body, j + 1, vs)

RECURSIVE CallsFrom(_, _)
CallsFrom(body, j) ==
    IF j > Len(body) THEN 0
    ELSE Len(body[j].calls) + CallsFrom(body, j + 1)

CallsOf(body) == CallsFrom(body, 1)

\* A callee of one line, return x, that has returned the value v of x.
ReturnsX(v) ==
    <<Returned(Line(<<"return", "x">>, 1, [id \in {"x"} |-> 0]),
               [id \in {"x"} |-> v], v)>>

\* The identifiers the register line of a program can see.
Visible(body) ==
    IF \E j \in DOMAIN body : "b" \in Names(body[j].text)
    THEN {"a", "b"} ELSE {"a"}

\* A program whose root frame is a = 1, the body, cyberbrain.register(id).
\* callee[i] holds the value the i-th callee returned, and is None for a
\* callee that left no computation: its key is then absent from frame_groups
\* or, with empty, present with an empty list.
RootProgram(body, callee, empty, id, va) ==
    LET traced == {i \in DOMAIN callee : empty \/ callee[i] # None}
        keys == [k \in 1..(Cardinality(traced) + 1) |->
                   IF k = 1 THEN RootFrame
                   ELSE <<0, CHOOSE i \in traced :
                               Cardinality({h \in traced : h < i}) = k - 2>>]
        root == <<Line(Assigned("a", <<"1">>), 1, <<>>)>>
                \o CompsOf(body, 1, [n \in {"a"} |-> 0])
                \o <<Line(Register(id), Len(body) + 2,
                          [n \in Visible(body) |->
                             IF n = "a" THEN va ELSE 0])>>
    IN Computations(
         keys,
         [f \in Range(keys) |->
            IF f = RootFrame THEN root
            ELSE IF callee[f[2]] = None THEN <<>>
            ELSE ReturnsX(callee[f[2]][1])],
         [f \in Range(keys) |-> NEITHER],
         <<RootFrame, Len(root)>>)

InitRootProgram ==
    \E body \in Bodies :
    \E callee \in [0..(CallsOf(body) - 1) -> {None} \cup {Some(v) : v \in Vals}] :
    \E empty \in BOOLEAN, id \in Visible(body), va \in Vals :
       cm = RootProgram(body, callee, empty, id, va)

\* b = f(a) in the root frame, f being one line that calls g:
\*     def f(x): return g(x)   or   def f(x): g(x)
\*     def g(y): return y
NestedProgram(line, id, v) ==
    LET gx == CallOf("g", <<"x">>)
        x0 == [n \in {"x"} |-> 0]
        root == <<Line(Assigned("a", <<"1">>), 1, <<>>),
                  Call(CallOf("f", <<"a">>), 2, [n \in {"a"} |-> 0], <<"x">>),
                  Line(Assigned("b", CallOf("f", <<"a">>)), 2,
                       [n \in {"a"} |-> 0]),
                  Line(Register(id), 3, [n \in {"a", "b"} |-> v])>>
        inner == <<Call(gx, 1, x0, <<"y">>),
                   Returned(Line(line, 1, x0), [n \in {"x"} |-> v], v)>>
        innermost == <<Returned(Line(<<"return", "y">>, 1,
                                     [n \in {"y"} |-> 0]),
                                [n \in {"y"} |-> v], v)>>
    IN Computations(
         <<RootFrame, <<0, 0>>, <<0, 0, 0>>>>,
         [f \in {RootFrame, <<0, 0>>, <<0, 0, 0>>} |->
            IF f = RootFrame THEN root
            ELSE IF f = <<0, 0>> THEN inner ELSE innermost],
         [f \in {RootFrame, <<0, 0>>, <<0, 0, 0>>} |-> NEITHER],
         <<RootFrame, 4>>)

InitNestedProgram ==
    \E line \in {<<"return">> \o CallOf("g", <<"x">>), CallOf("g", <<"x">>)} :
    \E id \in {"a", "b"}, v \in Vals :
       cm = NestedProgram(line, id, v)

\* register called inside the callee, which has not returned:
\*     def f(x):
\*         x = 1
\*         cyberbrain.register(x)
\*     a = 1
\*     f(a)
CalleeProgram(fbt, v) ==
    LET root == <<Line(Assigned("a", <<"1">>), 1, <<>>),
                  Call(CallOf("f", <<"a">>), 2, [n \in {"a"} |-> 0], <<"x">>),
                  Line(CallOf("f", <<"a">>), 2, [n \in {"a"} |-> 0])>>
        inner == <<Line(Assigned("x", <<"1">>), 1, [n \in {"x"} |-> 0]),
                   Line(Register("x"), 2, [n \in {"x"} |-> v])>>
    IN Computations(
         <<RootFrame, <<0, 0>>>>,
         [f \in {RootFrame, <<0, 0>>} |-> IF f = RootFrame THEN root ELSE inner],
         [f \in {RootFrame, <<0, 0>>} |-> IF f = RootFrame THEN NEITHER ELSE fbt],
         <<<<0, 0>>, 2>>)

InitCalleeProgram ==
    \E fbt \in {NEITHER, INIT_METHOD}, v \in Vals : cm = CalleeProgram(fbt, v)

\* The caller's value changed through a parameter:
\*     def f(x): x.append(2)
\*     lst = [1]
\*     f(lst)
\*     cyberbrain.register(lst)
ScenarioB ==
    LET flst == CallOf("f", <<"lst">>)
        root == <<Line(Assigned("lst", <<"[1]">>), 1, <<>>),
                  Call(flst, 2, [n \in {"lst"} |-> "[1]"], <<"x">>),
                  Line(flst, 2, [n \in {"lst"} |-> "[1]"]),
                  Line(Register("lst"), 3, [n \in {"lst"} |-> "[1, 2]"])>>
        inner == <<Returned(Line(<<"x", ".", "append">> \o <<"(", "2", ")">>,
                                 1, [n \in {"x"} |-> "[1]"]),
                            [n \in {"x"} |-> "[1, 2]"], "None")>>
    IN Computations(
         <<RootFrame, <<0, 0>>>>,
         [f \in {RootFrame, <<0, 0>>} |-> IF f = RootFrame THEN root ELSE inner],
         [f \in {RootFrame, <<0, 0>>} |-> NEITHER],
         <<RootFrame, 4>>)

InitScenarioB == cm = ScenarioB

\* The state before build_flow is called on the computations.
InitBuild ==
    /\ \/ InitRootProgram
       \/ InitNestedProgram
       \/ InitCalleeProgram
       \/ InitScenarioB
    /\ node = <<>>
    /\ metadata = <<>>
    /\ flow = [start |-> NoNode, target |-> NoNode]
    /\ current = NoNode
    /\ next = NoNode
    /\ pc = "build"
    /\ trace_pass = "first"
    /\ first_pass = <<>>
    /\ visits = <<>>
    /\ yielded = <<>>
    /\ NotRecording

\* Flow._trace_frame that yields a call node before the nodes of its callee.
RECURSIVE trace_frame_CallFirst(_)
trace_frame_CallFirst(n) ==
    IF n = NoNode THEN <<>>
    ELSE <<n>>
         \o (IF is_callsite(n) THEN trace_frame_CallFirst(node[n].step_into)
             ELSE <<>>)
         \o trace_frame_CallFirst(node[n].next)

\* Flow._trace_frame(current): the nodes it yields, in order.  For a call
\* site the nodes of the callee's frame are yielded first, then the node,
\* and the loop goes on with current.next.
RECURSIVE trace_frame(_)
trace_frame(n) ==
    IF n = NoNode THEN <<>>
    ELSE (IF is_callsite(n) THEN trace_frame(node[n].step_into) ELSE <<>>)
         \o <<n>>
         \o trace_frame(node[n].next)

\* get_dumpable_flow(flow): the list of the nodes Flow.__iter__ yields,
\* taken once trace_flow has returned.
IterateFlow ==
    /\ pc = "done"
    /\ yielded = <<>>
    /\ yielded' = trace_frame(flow.start)
    /\ UNCHANGED <<node, metadata, flow, current, next, pc>>
    /\ UNCHANGED <<cm, trace_pass, first_pass, visits>>
    /\ UNCHANGED recording

NextBuild ==
    BuildFlow \/ BeginTrace \/ Case1 \/ Case2 \/ Case3 \/ Finish \/ IterateFlow

SpecBuild == InitBuild /\ [][NextBuild]_vars

\* ----------------------------------------------------------- step predicates
\* The three cases of the loop body, as seen from the state before the step.
InCase1 == pc = "walk" /\ current # ROOT /\ ~is_callsite(current)

InCase2 ==
    /\ pc = "walk" /\ current # ROOT /\ is_callsite(current)
    /\ node[current].step_into = next

InCase3 ==
    /\ pc = "walk" /\ current # ROOT /\ is_callsite(current)
    /\ node[current].step_into # next

\* A step of the loop body that ran to its end without raising.
Case1Step == InCase1 /\ pc' = "walk"

Case2Step == InCase2 /\ pc' = "walk"

Case3Step == InCase3 /\ pc' = "walk"

\* Whether the step stored a change record on current.
Emitted ==
    Len(metadata'[current].var_appearances)
      + Len(metadata'[current].var_modifications)
    > Len(metadata[current].var_appearances)
      + Len(metadata[current].var_modifications)

\* The identifiers of a list of change records.
RecordIds(records) == {records[i].id : i \in DOMAIN records}

\* The diff rule of one identifier between an earlier and a later snapshot.
Appears(before, id) == id \notin DOMAIN before

Modified(before, after, id) == id \in DOMAIN before /\ before[id] # after[id]

\* The tracked identifiers of next that changed between current and next.
ChangedIds ==
    {id \in metadata[next].tracking :
       \/ Appears(metadata[current].vars, id)
       \/ Modified(metadata[current].vars, metadata[next].vars, id)}

\* ------------------------------------------------------------------ claims
\* C1: trace_flow terminates with current = ROOT for every well-formed flow:
\* whenever the walk has stopped, the cursor current is the ROOT sentinel.
C1_StopsAtRoot == pc # "walk" => current = ROOT

\* C2: in a case-1 step every identifier of next.tracking gets its record on
\* current by the diff rule: a VarAppearance if absent from current.vars, a
\* VarModification if present with a different value, nothing if equal.
C2_EveryTrackedIdDiffed ==
    [][Case1Step =>
         \A id \in metadata[next].tracking :
            LET before == metadata[current].vars
                after == metadata[next].vars
                apps == Range(metadata'[current].var_appearances)
                mods == Range(metadata'[current].var_modifications)
            IN /\ Appears(before, id) => VarAppearance(id, after[id]) \in apps
               /\ Modified(before, after, id) =>
                    VarModification(id, before[id], after[id]) \in mods
               /\ ~Appears(before, id) /\ ~Modified(before, after, id) =>
                    /\ id \notin RecordIds(metadata'[current].var_appearances)
                    /\ id \notin RecordIds(metadata'[current].var_modifications)
      ]_vars

\* C3: no node ever holds a VarModification whose old and new value are equal.
C3_NoSpuriousModification ==
    \A n \in Nodes :
       \A i \in DOMAIN metadata[n].var_modifications :
          metadata[n].var_modifications[i].old_value
             # metadata[n].var_modifications[i].new_value

\* C3 witness: the pass is over, a callee's last node tracked an identifier
\* that its last statement left unchanged and another one that it changed,
\* and a same-frame diff stored a modification too.
C3_Witness ==
    /\ pc = "done"
    /\ \E n \in Nodes :
         /\ metadata[n].vars_before_return # None
         /\ \E i, j \in metadata[n].tracking :
              /\ metadata[n].vars[i] = metadata[n].vars_before_return[1][i]
              /\ metadata[n].vars[j] # metadata[n].vars_before_return[1][j]
    /\ \E n \in Nodes :
         /\ metadata[n].vars_before_return = None
         /\ metadata[n].var_modifications # <<>>

C5_WidenedToAllNames ==
    [][Case1Step =>
         IF Emitted
         THEN find_names(metadata[current].code_ast)
                 \subseteq metadata'[current].tracking
         ELSE metadata'[current].tracking \subseteq metadata[next].tracking
      ]_vars

\* C5 amended: a case-1 step that emitted a record leaves every identifier
\* referenced in current's statement and present in current.vars in
\* current.tracking; one that emitted none leaves nothing beyond the
\* identifiers of next.tracking.
C5_WidenedToPresentNames ==
    [][Case1Step =>
         IF Emitted
         THEN find_names(metadata[current].code_ast)
                 \cap DOMAIN metadata[current].vars
                 \subseteq metadata'[current].tracking
         ELSE metadata'[current].tracking \subseteq metadata[next].tracking
      ]_vars

\* C5 witness: a plain statement holds a record, tracks a name of its own
\* statement that its successor does not track, and references another name
\* that its vars lack.
C5_Witness ==
    \E n \in Nodes :
       /\ ~is_callsite(n)
       /\ node[n].next \in Nodes
       /\ metadata[n].var_appearances \o metadata[n].var_modifications # <<>>
       /\ \E id \in find_names(metadata[n].code_ast) :
             /\ id \in metadata[n].tracking
             /\ id \notin metadata[node[n].next].tracking
       /\ \E id \in find_names(metadata[n].code_ast) :
             id \notin DOMAIN metadata[n].vars

\* The (parameter, argument) pairs a case-2 step switches.
SwitchedPairs ==
    {pa \in metadata[next].tracking \X get_args(metadata[current]) :
       /\ ~(node[next].frame_belonging_type = INIT_METHOD /\ pa[1] = "self")
       /\ pa[1] \in DOMAIN metadata[current].param_to_arg
       /\ pa[2] \in metadata[current].param_to_arg[pa[1]]}

\* C6: a case-2 step adds to the call node exactly the VarSwitch records
\* (a, p, current.vars[a]) for p in next.tracking, p not the self of a
\* constructor, a in param_to_arg[p]; every such a is tracked afterwards.
C6_SwitchesExact ==
    [][Case2Step =>
         LET cur == metadata[current]
             expected == {VarSwitch(pa[2], pa[1], cur.vars[pa[2]]) :
                            pa \in SwitchedPairs}
         IN /\ Range(metadata'[current].var_switches)
                 = Range(cur.var_switches) \cup expected
            /\ Len(metadata'[current].var_switches)
                 = Len(cur.var_switches) + Cardinality(SwitchedPairs)
            /\ \A pa \in SwitchedPairs : pa[2] \in metadata'[current].tracking
      ]_vars

\* C6 witness: the call node of a constructor holds a switch although the
\* callee's first node tracks self as well.
C6_Witness ==
    \E n \in Nodes :
       /\ is_callsite(n)
       /\ metadata[n].var_switches # <<>>
       /\ node[node[n].step_into].frame_belonging_type = INIT_METHOD
       /\ "self" \in metadata[node[n].step_into].tracking
       /\ "self" \in DOMAIN metadata[n].param_to_arg

\* The parameters of the changed argument identifiers of a case-3 step.
ChangedParams ==
    {metadata[current].arg_to_param[id] :
       id \in ChangedIds \cap get_args(metadata[current])}

\* C7 as stated: in a case-3 step the parameter bound to every changed tracked
\* argument identifier is in callee_exit.tracking.
C7_ChangedArgTracksParam ==
    [][Case3Step =>
         ChangedParams
            \subseteq metadata'[node[current].returned_from].tracking]_vars

\* C7 amended: in a case-3 step the parameter bound to every changed tracked
\* argument identifier is in callee_exit.tracking if callee_exit.vars holds it.
C7_ChangedArgTracksPresentParam ==
    [][Case3Step =>
         ChangedParams \cap DOMAIN metadata[node[current].returned_from].vars
            \subseteq metadata'[node[current].returned_from].tracking]_vars

\* C7 witness: the walk has just descended into a callee, and the call node
\* holds a change of an argument identifier whose parameter is tracked at the
\* callee's last node.
C7_Witness ==
    \E n \in Nodes :
       /\ is_callsite(n)
       /\ node[n].returned_from = next
       /\ pc = "walk"
       /\ \E id \in RecordIds(metadata[n].var_appearances
                               \o metadata[n].var_modifications) :
             /\ id \in get_args(metadata[n])
             /\ metadata[n].arg_to_param[id] \in metadata[next].tracking

\* Whether a changed identifier of a case-3 step is an assignment target.
ReturnConsumed ==
    ChangedIds \cap (find_names(metadata[current].code_ast)
                       \ get_args(metadata[current])) # {}

IsInit(n) == node[n].frame_belonging_type = INIT_METHOD

\* C8 as stated: a case-3 step with a changed assignment target and a callee
\* that is no constructor marks callee_exit as a relevant return and tracks
\* every identifier of its statement there; without a changed assignment
\* target the step does not mark it.
C8_ReturnTracksAllNames ==
    [][Case3Step =>
         LET rf == node[current].returned_from
         IN /\ ReturnConsumed /\ ~IsInit(rf) =>
                 /\ metadata'[rf].is_relevant_return
                 /\ find_names(metadata[rf].code_ast)
                       \subseteq metadata'[rf].tracking
            /\ ~ReturnConsumed =>
                 metadata'[rf].is_relevant_return
                    = metadata[rf].is_relevant_return
      ]_vars

\* C8 amended: as C8, with the identifiers of callee_exit's statement that
\* callee_exit.vars holds.
C8_ReturnTracksPresentNames ==
    [][Case3Step =>
         LET rf == node[current].returned_from
         IN /\ ReturnConsumed /\ ~IsInit(rf) =>
                 /\ metadata'[rf].is_relevant_return
                 /\ find_names(metadata[rf].code_ast)
                       \cap DOMAIN metadata[rf].vars
                       \subseteq metadata'[rf].tracking
            /\ ~ReturnConsumed =>
                 metadata'[rf].is_relevant_return
                    = metadata[rf].is_relevant_return
      ]_vars

\* C8 witness: the walk has just descended into a callee whose last node is a
\* relevant return and tracks a name of its statement.
C8_Witness ==
    /\ pc = "walk"
    /\ next \in Nodes
    /\ \E n \in Nodes : is_callsite(n) /\ node[n].returned_from = next
    /\ metadata[next].is_relevant_return
    /\ find_names(metadata[next].code_ast) \cap metadata[next].tracking # {}

\* C9: a case-3 step leaves on callee_exit exactly the diffs between its vars
\* and vars_before_return for the identifiers of callee_exit.tracking, and
\* sets next = callee_exit, current = callee_exit.prev.
C9_ExitRecordsExact ==
    [][Case3Step =>
         LET rf == node[current].returned_from
             before == metadata[rf].vars
             after == metadata[rf].vars_before_return[1]
             tracked == metadata'[rf].tracking
             mods == {id \in tracked : Modified(before, after, id)}
             apps == {id \in tracked : Appears(before, id)}
         IN /\ Range(metadata'[rf].var_modifications)
                 = {VarModification(id, before[id], after[id]) : id \in mods}
            /\ Len(metadata'[rf].var_modifications) = Cardinality(mods)
            /\ Range(metadata'[rf].var_appearances)
                 = {VarAppearance(id, after[id]) : id \in apps}
            /\ Len(metadata'[rf].var_appearances) = Cardinality(apps)
            /\ next' = rf
            /\ current' = node[rf].prev
      ]_vars

\* C9 witness: the walk has just descended into a callee whose last node
\* tracks two identifiers, one changed by the last statement and recorded,
\* one left unchanged.
C9_Witness ==
    /\ pc = "walk"
    /\ next \in Nodes
    /\ \E n \in Nodes : is_callsite(n) /\ node[n].returned_from = next
    /\ current = node[next].prev
    /\ metadata[next].var_modifications # <<>>
    /\ \E id \in metadata[next].tracking :
          metadata[next].vars[id] = metadata[next].vars_before_return[1][id]

\* C10 as stated, for a call of a constructor: the call node never holds a
\* VarSwitch with param_id self; case 3 tracks self at callee_exit; case 3
\* neither marks callee_exit as a relevant return nor adds the names of its
\* statement to its tracking.
C10_InitSelf ==
    [][/\ \A n \in Nodes :
            is_callsite(n) /\ IsInit(node[n].step_into) =>
               \A i \in DOMAIN metadata'[n].var_switches :
                  metadata'[n].var_switches[i].param_id # "self"
       /\ Case3Step /\ IsInit(node[current].returned_from) =>
            LET rf == node[current].returned_from
            IN /\ "self" \in metadata'[rf].tracking
               /\ metadata'[rf].is_relevant_return
                     = metadata[rf].is_relevant_return
               /\ metadata'[rf].tracking
                     \subseteq metadata[rf].tracking \cup {"self"}
                                  \cup ChangedParams
      ]_vars

\* C10 amended: as C10, with self tracked at callee_exit if callee_exit.vars
\* holds an identifier of that name.
C10_InitPresentSelf ==
    [][/\ \A n \in Nodes :
            is_callsite(n) /\ IsInit(node[n].step_into) =>
               \A i \in DOMAIN metadata'[n].var_switches :
                  metadata'[n].var_switches[i].param_id # "self"
       /\ Case3Step /\ IsInit(node[current].returned_from) =>
            LET rf == node[current].returned_from
            IN /\ "self" \in DOMAIN metadata[rf].vars
                     => "self" \in metadata'[rf].tracking
               /\ metadata'[rf].is_relevant_return
                     = metadata[rf].is_relevant_return
               /\ metadata'[rf].tracking
                     \subseteq metadata[rf].tracking \cup {"self"}
                                  \cup ChangedParams
      ]_vars

\* C10 witness: the pass over a constructor call is over; the call's
\* assignment target changed, the callee's last node tracks self, is no
\* relevant return and leaves a name of its statement untracked, and the call
\* node holds a switch of another parameter although self was tracked at the
\* callee's first node.
C10_Witness ==
    /\ pc = "done"
    /\ \E n \in Nodes :
         /\ is_callsite(n)
         /\ IsInit(node[n].step_into)
         /\ LET rf == node[n].returned_from
            IN /\ "self" \in metadata[rf].tracking
               /\ ~metadata[rf].is_relevant_return
               /\ \E id \in find_names(metadata[rf].code_ast)
                              \cap DOMAIN metadata[rf].vars :
                     id \notin metadata[rf].tracking
         /\ \E id \in RecordIds(metadata[n].var_appearances
                                 \o metadata[n].var_modifications) :
               id \in find_names(metadata[n].code_ast) \ get_args(metadata[n])
         /\ "self" \in metadata[node[n].step_into].tracking
         /\ metadata[n].var_switches # <<>>

\* C11: after a second call of trace_flow on the same flow every node has the
\* tracking set and the appearance, modification and switch records that the
\* first call left.
C11_SecondPassSame ==
    pc = "done" /\ trace_pass = "second" =>
       \A n \in Nodes :
          /\ metadata[n].tracking = first_pass[n].tracking
          /\ metadata[n].var_appearances = first_pass[n].var_appearances
          /\ metadata[n].var_modifications = first_pass[n].var_modifications
          /\ metadata[n].var_switches = first_pass[n].var_switches

\* C12: on every call node the arg_id of every stored VarSwitch is one of the
\* node's argument identifiers get_args().
C12_SwitchArgIsArg ==
    \A n \in Nodes :
       \A i \in DOMAIN metadata[n].var_switches :
          metadata[n].var_switches[i].arg_id \in get_args(metadata[n])

\* C12 witness: after the second pass a call node that binds two argument
\* identifiers to one parameter holds a switch for each of them.
C12_Witness ==
    /\ pc = "done"
    /\ trace_pass = "second"
    /\ \E n \in Nodes :
         /\ is_callsite(n)
         /\ Cardinality(get_args(metadata[n])) = 2
         /\ {metadata[n].var_switches[i].arg_id :
               i \in DOMAIN metadata[n].var_switches} = get_args(metadata[n])

\* The flow is the one of scenario A.
InScenarioA ==
    /\ DOMAIN node = 1..4
    /\ \A n \in 1..4 :
          /\ metadata[n].vars = ScenarioAVars[n]
          /\ metadata[n].code_ast = ScenarioAStmts[n]

\* The records scenario A yields, by both statements of the claim.
ScenarioARecords ==
    /\ metadata[4].tracking = {"c"}
    /\ metadata[3].var_appearances = <<VarAppearance("c", 2)>>
    /\ metadata[2].var_appearances = <<VarAppearance("b", 1)>>
    /\ metadata[1].var_appearances = <<VarAppearance("a", 1)>>
    /\ metadata[4].var_appearances = <<>>
    /\ \A n \in 1..4 : metadata[n].var_modifications = <<>>

\* C13 as stated: scenario A yields VarAppearance(c) at c = b + 1 with the
\* tracking {c, b} there, VarAppearance(b) at b = a with the tracking {b, a},
\* VarAppearance(a) at a = 1, and no VarModification.
C13_ScenarioAWidened ==
    InScenarioA /\ pc = "done" =>
       /\ ScenarioARecords
       /\ metadata[3].tracking = {"c", "b"}
       /\ metadata[2].tracking = {"b", "a"}

\* C13 amended: the same records, with the tracking {b} at c = b + 1 and {a}
\* at b = a: the identifier a statement defines is not in its snapshot and is
\* not tracked there.
C13_ScenarioAPresent ==
    InScenarioA /\ pc = "done" =>
       /\ ScenarioARecords
       /\ metadata[3].tracking = {"b"}
       /\ metadata[2].tracking = {"a"}
       /\ metadata[1].tracking = {}

\* C13 witness: the pass over scenario A is over and reached a = 1.
C13_Witness ==
    /\ InScenarioA
    /\ pc = "done"
    /\ metadata[1].var_appearances # <<>>

\* The identifier passed to register(): the target's tracking never changes.
TargetId == CHOOSE id \in metadata[flow.target].tracking : TRUE

\* The nodes reached from n by following prev.
RECURSIVE PrevChain(_)
PrevChain(n) == IF n \in Nodes THEN {n} \cup PrevChain(node[n].prev) ELSE {}

\* The nodes of the target's frame up to the target.
TargetFrame ==
    {n \in PrevChain(flow.target) :
       node[n].frame_id = node[flow.target].frame_id}

\* The statement of d defines the target identifier, and every later snapshot
\* of the frame up to the target holds it with the registered value.
DefinedOnceAt(d) ==
    /\ d \in TargetFrame \ {flow.target}
    /\ \A n \in TargetFrame :
          IF n \in PrevChain(d)
          THEN TargetId \notin DOMAIN metadata[n].vars
          ELSE /\ TargetId \in DOMAIN metadata[n].vars
               /\ metadata[n].vars[TargetId]
                     = metadata[flow.target].vars[TargetId]

\* The records of node n that are about the identifier id.
RecordsOf(n, id) ==
    {r \in Range(metadata[n].var_appearances)
            \cup Range(metadata[n].var_modifications) : r.id = id}

NoRecords(n) ==
    /\ metadata[n].var_appearances = <<>>
    /\ metadata[n].var_modifications = <<>>
    /\ metadata[n].var_switches = <<>>

C14_ScenarioB ==
    (cm = ScenarioB /\ pc = "done") =>
       LET call == NodeOf(cm, RootFrame, 2)
           exit == NodeOf(cm, <<0, 0>>, 1)
       IN /\ VarModification("x", "[1]", "[1, 2]")
               \in Range(metadata[exit].var_modifications)
          /\ VarSwitch("lst", "x", "[1]")
               \in Range(metadata[call].var_switches)
          /\ "lst" \in metadata[call].tracking

C14_Witness ==
    /\ cm = ScenarioB
    /\ pc = "done"
    /\ node[NodeOf(cm, RootFrame, 2)].type = CALL
    /\ node[NodeOf(cm, RootFrame, 2)].returned_from = NodeOf(cm, <<0, 0>>, 1)
    /\ metadata[NodeOf(cm, RootFrame, 2)].var_switches # <<>>

\* build_flow has returned a flow.
Built == pc \in {"built", "walk", "done"}

\* The frame id child is parent extended by exactly one child index.
IsChildFrame(child, parent) ==
    /\ Len(child) = Len(parent) + 1
    /\ SubSeq(child, 1, Len(parent)) = parent

\* C16: after build_flow, step_into and returned_from of every node, where
\* set, point to a node whose frame id is the node's frame id extended by
\* exactly one child index, and next, where set, points to a node of the
\* node's own frame, for CALL nodes as well.
C16_EdgesAndFrames ==
    Built =>
       \A n \in Nodes :
          /\ node[n].step_into # NoNode =>
                IsChildFrame(node[node[n].step_into].frame_id, node[n].frame_id)
          /\ node[n].returned_from # NoNode =>
                IsChildFrame(node[node[n].returned_from].frame_id,
                             node[n].frame_id)
          /\ node[n].next # NoNode =>
                node[node[n].next].frame_id = node[n].frame_id

\* C16 witness: a flow was built in which a CALL node inside a callee has its
\* three edges set.
C16_Witness ==
    /\ pc = "built"
    /\ \E n \in Nodes :
          /\ node[n].type = CALL
          /\ Len(node[n].frame_id) = 2
          /\ node[n].step_into # NoNode
          /\ node[n].returned_from # NoNode
          /\ node[n].next # NoNode

\* The CALL nodes of the frame of n created before n.
CallsBefore(n) ==
    {m \in Nodes : /\ m < n
                   /\ node[m].type = CALL
                   /\ node[m].frame_id = node[n].frame_id}

\* C17: after build_flow, the k-th CALL node of frame F, counted from 0 in
\* the order of the records, steps into the first node of the records of
\* F + (k,), returns from the last of them, and is the prev of the first.
C17_CalleeOfKthCall ==
    Built =>
       \A n \in Nodes :
          node[n].type = CALL =>
             LET key == Append(node[n].frame_id, Cardinality(CallsBefore(n)))
                 first == NodeOf(cm, key, 1)
                 last == NodeOf(cm, key, Len(cm.frame_groups[key]))
             IN /\ key \in Range(cm.order)
                /\ node[n].step_into = first
                /\ node[n].returned_from = last
                /\ node[first].prev = n

\* C17 witness: a flow was built whose root frame has a second CALL node, and
\* the callee of that one has records.
C17_Witness ==
    /\ pc = "built"
    /\ \E n \in Nodes :
          /\ node[n].type = CALL
          /\ Cardinality(CallsBefore(n)) = 1
          /\ node[n].step_into # NoNode

\* The computation a node was created for.
CompOf(n) == cm.frame_groups[FrameOfNode(cm, n)][IndexOfNode(cm, n)]

\* Every call computation has the computations of its callee, under the frame
\* id of the call extended by the call's index in its frame.
AllCalleesTraced ==
    \A f \in Range(cm.order) :
       \A k \in DOMAIN cm.frame_groups[f] :
          cm.frame_groups[f][k].event_type = "call" =>
             HasNodes(cm, Append(f, Cardinality(
                {j \in 1..(k - 1) : cm.frame_groups[f][j].event_type = "call"})))

\* build_flow raised: no flow was returned.
BuildFailed == pc = "error" /\ node = <<>>

\* The CALL nodes of the logical line of the node n.
CallsOfLine(n) ==
    {m \in Nodes : /\ node[m].type = CALL
                   /\ node[m].frame_id = node[n].frame_id
                   /\ CompOf(m).surrounding = CompOf(n).surrounding}

\* C18: a logical line with n calls yields n CALL nodes in the order of the
\* calls; the statement of the i-th CALL node of the frame is rI_ = the
\* call's own expression (or that call with the line's target, once the line
\* node has been merged into it), with the calls made before it replaced by
\* their identifiers, and the line node that follows names no call any more;
\* also when two calls of the line have the same text.
C18_CallStatements ==
    (pc # "build" /\ AllCalleesTraced) =>
       /\ ~BuildFailed
       /\ Built =>
            \A n \in Nodes :
               LET stmt == parse_code_str(metadata[n].code_str)
                   i == Cardinality(CallsBefore(n))
               IN /\ node[n].type = CALL =>
                       /\ IsCallExpr(stmt.value)
                       /\ stmt.value[1] = CompOf(n).code_str[1]
                       /\ \A k \in DOMAIN stmt.value :
                             Depth(stmt.value, k) <= 1
                       /\ \/ stmt.targets = {Intermediate(i)}
                          \/ node[n].next # n + 1
                  /\ node[n].type = LINE =>
                       /\ \A c \in CallsOfLine(n) :
                             metadata[n].code_str
                               = ReplaceFirst(metadata[n].code_str,
                                              <<CompOf(c).code_str[1], "(">>,
                                              <<>>)
                       /\ {Intermediate(Cardinality(CallsBefore(c))) :
                             c \in CallsOfLine(n)} \cap Names(CompOf(n).code_str)
                          = {}

\* A line node whose statement has become rN_ or a = rN_.
IsMerged(t) ==
    /\ node[t].type = LINE
    /\ LET stmt == parse_code_str(metadata[t].code_str)
       IN /\ stmt.kind \in {"Expr", "Assign"}
          /\ IsNameExpr(stmt.value)
          /\ IsIntermediate(stmt.value[1])

\* The first and the last node created for the frame of n.
FirstOfFrame(n) == NodeOf(cm, node[n].frame_id, 1)

LastOfFrame(n) ==
    NodeOf(cm, node[n].frame_id, Len(cm.frame_groups[node[n].frame_id]))

\* C19: a last node T of a logical line that has become rN_ or a = rN_ is
\* taken out of the chain of its frame: the CALL node C before it has
\* C.next = T.next and, where T.next exists, T.next.prev = C; the statement
\* of C is the bare call for rN_ and a = <call> for a = rN_; every other node
\* keeps the neighbours it was created with.
C19_LineMerged ==
    Built =>
       /\ \A t \in Nodes :
             IsMerged(t) =>
                LET c == t - 1
                    stmt_t == parse_code_str(metadata[t].code_str)
                    stmt_c == parse_code_str(metadata[c].code_str)
                IN /\ t # FirstOfFrame(t)
                   /\ node[c].type = CALL
                   /\ node[c].next = node[t].next
                   /\ node[t].next # NoNode => node[node[t].next].prev = c
                   /\ IsCallExpr(stmt_c.value)
                   /\ stmt_c.value[1] = CompOf(c).code_str[1]
                   /\ stmt_c.kind = stmt_t.kind
                   /\ metadata[c].code_str
                        = SubSeq(metadata[t].code_str, 1,
                                 TopLevel(metadata[t].code_str, "="))
                          \o stmt_c.value
       /\ \A n \in Nodes :
             /\ (n # LastOfFrame(n) /\ ~IsMerged(n + 1)) => node[n].next = n + 1
             /\ n = LastOfFrame(n) => node[n].next = NoNode
             /\ (n # FirstOfFrame(n) /\ ~IsMerged(n - 1)) => node[n].prev = n - 1
             /\ n = FirstOfFrame(n) =>
                   IF n = flow.start THEN node[n].prev = ROOT
                   ELSE /\ node[n].prev \in Nodes
                        /\ node[node[n].prev].step_into = n

\* C19 witness: a flow was built in which a line rN_ and a line a = rN_ were
\* merged into their CALL nodes, the second of them followed by another line.
C19_Witness ==
    /\ pc = "built"
    /\ \E t \in Nodes, u \in Nodes :
          /\ IsMerged(t) /\ IsMerged(u)
          /\ parse_code_str(metadata[t].code_str).kind = "Expr"
          /\ parse_code_str(metadata[u].code_str).kind = "Assign"
          /\ node[u].next # NoNode
          /\ node[node[u].next].prev = u - 1

\* C20: if the computations of the callee frame a call computation expects,
\* under the frame id of the call extended by its index, are absent or
\* empty, build_flow raises and returns no flow; and no flow it returns has a
\* CALL node without step_into or returned_from.
C20_MissingCalleeIsFatal ==
    /\ (pc # "build" /\ ~AllCalleesTraced) => BuildFailed
    /\ Built =>
          \A n \in Nodes :
             node[n].type = CALL =>
                /\ node[n].step_into # NoNode
                /\ node[n].returned_from # NoNode

\* C20 witness: build_flow has raised for computations in which the callee of
\* the first call has its computations, the key of the second callee holds
\* an empty list.
C20_Witness ==
    /\ BuildFailed
    /\ HasNodes(cm, <<0, 0>>)
    /\ <<0, 1>> \in Range(cm.order)
    /\ cm.frame_groups[<<0, 1>>] = <<>>

\* C21: once the Flow is constructed, the tracking of the target node is {x},
\* x being the argument of the register call of its statement, the prev of
\* start is ROOT, and the tracking of every other node is empty.
C21_FlowSeedsTarget ==
    pc = "built" =>
       /\ \E x \in DOMAIN metadata[flow.target].vars :
             /\ CompOf(flow.target).code_str = Register(x)
             /\ metadata[flow.target].tracking = {x}
       /\ node[flow.start].prev = ROOT
       /\ \A n \in Nodes \ {flow.target} : metadata[n].tracking = {}

\* C21 witness: a Flow was constructed whose target is not its start node and
\* lies in a callee frame.
C21_Witness ==
    /\ pc = "built"
    /\ node[flow.target].is_target
    /\ node[flow.target].frame_id # RootFrame
    /\ metadata[flow.target].tracking # {}

\* C27: during the construction of the Flow and during trace_flow the
\* tracking of every node holds only identifiers present in the vars of
\* that node.
C27_TrackingWithinVars ==
    \A n \in Nodes : metadata[n].tracking \subseteq DOMAIN metadata[n].vars

\* C27 witness: trace_flow has ended on a built flow in which a node sees an
\* identifier that the node after it tracks and that its own vars lack.
C27_Witness ==
    /\ pc = "done"
    /\ cm # <<>>
    /\ \E n \in Nodes :
          /\ node[n].next \in Nodes
          /\ metadata[node[n].next].tracking \ DOMAIN metadata[n].vars # {}
          /\ metadata[n].var_appearances # <<>>

\* ------------------------------------------------- functions on their own
\* No flow is built or walked while a function is applied on its own or the
\* recorder runs.
NotTracing ==
    /\ node = <<>>
    /\ metadata = <<>>
    /\ flow = [start |-> NoNode, target |-> NoNode]
    /\ current = NoNode
    /\ next = NoNode
    /\ trace_pass = "first"
    /\ first_pass = <<>>
    /\ visits = <<>>
    /\ yielded = <<>>

\* The frame ids of the programs whose calls nest MaxDepth deep and that make
\* up to MaxChild + 1 calls from each frame.
MaxDepth == 3

MaxChild == 1

RECURSIVE FrameIdsOfDepth(_)
FrameIdsOfDepth(d) ==
    IF d = 1 THEN {RootFrame}
    ELSE {Append(p, k) : p \in FrameIdsOfDepth(d - 1), k \in 0..MaxChild}

FrameIds == UNION {FrameIdsOfDepth(d) : d \in 1..MaxDepth}

\* FrameID.parent
parent(frame_id) == SubSeq(frame_id, 1, Len(frame_id) - 1)

\* FrameID.is_child_of: FrameID.__eq__ of the two paths.
is_child_of(self, other) == other = self

\* FrameID.is_parent_of: FrameID.__eq__ of the two paths.
is_parent_of(self, other) == self = other

\* The function under test and its arguments.
Probe(fn, kind, args) == [fn |-> fn, kind |-> kind, args |-> args]

\* def f(foo, bar, baz=1, *args, **kwargs) called with the given number of
\* extra positional and extra keyword values.
ArgInfoF(extra, extra_kw) ==
    ArgInfo(<<"foo", "bar", "baz">>, Some("args"), Some("kwargs"),
            [n \in {"args", "kwargs"} |-> IF n = "args" THEN extra
                                          ELSE extra_kw])

\* def g(*foo, **bar)
ArgInfoG(extra, extra_kw) ==
    ArgInfo(<<>>, Some("foo"), Some("bar"),
            [n \in {"foo", "bar"} |-> IF n = "foo" THEN extra ELSE extra_kw])

\* A signature without *args and **kwargs.
ArgInfoPlain(args) == ArgInfo(args, None, None, <<>>)

Keyword(name, value) == <<name, "=">> \o value

Tuple2(x, y) == <<"(", x, ",", y, ")">>

RECURSIVE Joined(_)
Joined(args) ==
    IF args = <<>> THEN <<>>
    ELSE IF Len(args) = 1 THEN args[1]
    ELSE args[1] \o <<",">> \o Joined(Tail(args))

\* The call sites of functions with the ArgInfo of the frame each call
\* creates: the calls of callsite_test.py and calls with fewer and with more
\* arguments.
FunctionCalls ==
    {<<CallOf("f", Joined(<<<<"1">>, <<"2">>>>)), ArgInfoF(0, 0)>>,
     <<CallOf("f", Joined(<<<<"a">>, <<"b">>, <<"c">>>>)), ArgInfoF(0, 0)>>,
     <<CallOf("f", Joined(<<<<"a">>, <<"b">>, <<"c">>, <<"d">>,
                            Keyword("qux", <<"e">>)>>)), ArgInfoF(1, 1)>>,
     <<CallOf("f", Joined(<<<<"a">>, <<"b">>, <<"c">>, <<"d">>, <<"e">>>>)),
       ArgInfoF(2, 0)>>,
     <<CallOf("f", Joined(<<<<"a">>, Tuple2("b", "c"), <<"c">>,
                            Keyword("qux", Tuple2("d", "e"))>>)),
       ArgInfoF(0, 1)>>,
     <<CallOf("f", Joined(<<<<"a">>, Keyword("baz", <<"c">>),
                            Keyword("bar", <<"b">>)>>)),
       ArgInfoF(0, 0)>>,
     <<CallOf("g", Joined(<<<<"d">>, Keyword("qux", <<"e">>)>>)),
       ArgInfoG(1, 1)>>,
     <<CallOf("g", Joined(<<<<"a">>, <<"b">>>>)), ArgInfoG(2, 0)>>,
     <<CallOf("g", Joined(<<Keyword("y", <<"a">>), Keyword("z", <<"b">>)>>)),
       ArgInfoG(0, 2)>>,
     <<CallOf("g", <<>>), ArgInfoG(0, 0)>>,
     <<CallOf("h", <<"a">>), ArgInfoPlain(<<"x">>)>>,
     <<CallOf("h", <<"a">>), ArgInfoPlain(<<"x", "y">>)>>,
     <<CallOf("h", Joined(<<<<"a">>, <<"1">>>>)), ArgInfoPlain(<<"x", "y">>)>>}

\* The calls of test/method/method.py, a constructor and an instance method,
\* and of a method with one argument.
MethodCalls ==
    {<<CallOf("MyClass", Joined(<<<<"1">>, <<"2">>>>)),
       ArgInfoPlain(<<"self", "x", "y">>)>>,
     <<<<"inst", ".", "increment", "(", ")">>, ArgInfoPlain(<<"self">>)>>,
     <<<<"inst", ".", "add", "(", "a", ")">>, ArgInfoPlain(<<"self", "x">>)>>}

InitPure ==
    /\ \/ \E self \in FrameIds, other \in FrameIds :
          \E fn \in {"is_child_of", "is_parent_of"} :
             probe = Probe(fn, "frame", <<self, other>>)
       \/ \E call \in FunctionCalls :
          \E fn \in {"get_param_arg_pairs", "get_param_to_arg"} :
             probe = Probe(fn, "function", call)
       \/ \E call \in MethodCalls :
          \E fn \in {"get_param_arg_pairs", "get_param_to_arg"} :
             probe = Probe(fn, "method", call)
    /\ result = None
    /\ current_ = RootFrame
    /\ child_index = <<>>
    /\ stack = <<>>
    /\ activations = <<>>
    /\ cm = <<>>
    /\ pc = "apply"
    /\ NotTracing

\* What an application leaves alone.
Applied(value) ==
    /\ result = None
    /\ result' = Some(value)
    /\ UNCHANGED <<node, metadata, flow, current, next, pc, cm, trace_pass,
                   first_pass, visits, yielded, current_, child_index, stack,
                   activations, probe>>

ApplyIsChildOf ==
    /\ pc = "apply"
    /\ probe.fn = "is_child_of"
    /\ Applied(is_child_of(probe.args[1], probe.args[2]))

ApplyIsParentOf ==
    /\ pc = "apply"
    /\ probe.fn = "is_parent_of"
    /\ Applied(is_parent_of(probe.args[1], probe.args[2]))

ApplyGetParamArgPairs ==
    /\ pc = "apply"
    /\ probe.fn = "get_param_arg_pairs"
    /\ Applied(get_param_arg_pairs(probe.args[1], probe.args[2]))

ApplyGetParamToArg ==
    /\ pc = "apply"
    /\ probe.fn = "get_param_to_arg"
    /\ Applied(get_param_to_arg(probe.args[1], Parameters(probe.args[2])))

NextPure ==
    \/ ApplyIsChildOf
    \/ ApplyIsParentOf
    \/ ApplyGetParamArgPairs
    \/ ApplyGetParamToArg

SpecPure == InitPure /\ [][NextPure]_vars

\* The function fn was applied.
WasApplied(fn) == pc = "apply" /\ probe.fn = fn /\ result # None

\* ---------------------------------------------------------------- recorder
\* The recorded program has MaxLine logical lines in each of its functions,
\* and the recorder is followed for MaxComps computations.
MaxLine == 2

MaxComps == 8

\* The logical line of cyberbrain.register.
RegisterLine == MaxLine + 1

\* The names of the functions an activation calls, in the order of its calls.
Callees == <<"f", "g", "h", "k">>

\* The FrameBelongingType of the frames of a function: g is an __init__.
TypeOf(name) == IF name = "g" THEN INIT_METHOD ELSE NEITHER

\* The code of a logical line.
CodeOf(line) ==
    IF line = RegisterLine THEN Register("a") ELSE <<"a", "=", "1">>

\* A running frame of the recorded program: the frame id of its activation
\* (that of its caller and its number among the caller's calls), whether its events reach add_computation, its number among
\* the calls of its caller, its FrameBelongingType, the logical line it is
\* at (0 before its first), the number of calls it has made and whether a
\* list comprehension has run in it.
Frame(id, traced, index, fbt, line, calls) ==
    [id |-> id, traced |-> traced, index |-> index, fbt |-> fbt,
     line |-> line, calls |-> calls, listcomp |-> FALSE]

Top == stack[Len(stack)]

\* Every action of the recorder leaves the flow alone; the event is kept
\* with the frame id FrameID.create returned for it.
Recording(event) ==
    /\ probe' = Probe("add_computation", event[1], event)
    /\ UNCHANGED <<node, metadata, flow, current, next, trace_pass, first_pass,
                   visits, yielded>>

\* defaultdict: the value of a key, which a read creates.
Lookup(dict, key, default) ==
    IF key \in DOMAIN dict THEN dict[key] ELSE default

Touch(dict, key, default) ==
    [k \in DOMAIN dict \cup {key} |-> Lookup(dict, k, default)]

\* frame_groups[frame_id], which adds the key with its type to the dict.
TouchGroup(c, frame_id, fbt) ==
    IF frame_id \in Range(c.order) THEN c
    ELSE [c EXCEPT !.order = Append(@, frame_id),
                   !.frame_groups = Touch(@, frame_id, <<>>),
                   !.frame_belonging_type = Touch(@, frame_id, fbt)]

\* The number of computations recorded.
Recorded(c) == NodeCount(c)

\* FrameID.create("call"): the frame id of the caller stays the result.
create_call ==
    /\ current_' = Append(current_, Lookup(child_index, current_, 0))
    /\ child_index' = Touch(child_index, current_, 0)

\* FrameID.create("return") that leaves the child index as it is.
Increment_Never(index) == index

\* After exiting the call frame, increments the child index.
Increment(index) == index + 1

\* FrameID.create("return") that leaves the current frame id as it is.
create_return_Stays == UNCHANGED <<current_, child_index>>

\* FrameID.create("return")
create_return ==
    /\ current_' = parent(current_)
    /\ child_index' = [Touch(child_index, parent(current_), 0)
                         EXCEPT ![parent(current_)] = Increment(@)]

\* The line event is never taken for the line of the last computation.
SameLogicalLine_Never(group, surrounding) == FALSE

\* Skips if the same logical line has been added.
SameLogicalLine(group, surrounding) ==
    group # <<>> /\ group[Len(group)].surrounding = surrounding

\* The call computation is put after the line of its statement.
AddCall_Last(group, computation) == Append(group, computation)

\* Always keeps the Line computation at the end.
AddCall(group, computation) ==
    IF group # <<>> /\ group[Len(group)].event_type = "line"
    THEN Append(SubSeq(group, 1, Len(group) - 1), computation)
         \o <<group[Len(group)]>>
    ELSE Append(group, computation)

\* self.target, a reference to a Line, stays with the Line when a Call is
\* put before it.
TargetAfter(c, frame_id) ==
    IF c.target # <<>> /\ c.target[1] = frame_id
       /\ c.target[2] = Len(c.frame_groups[frame_id])
       /\ c.frame_groups[frame_id][c.target[2]].event_type = "line"
    THEN <<frame_id, c.target[2] + 1>>
    ELSE c.target

InitRecord ==
    /\ current_ = RootFrame
    /\ child_index = <<>>
    /\ stack = <<Frame(RootFrame, TRUE, 0, NEITHER, 0, 0)>>
    /\ activations = <<RootFrame>>
    /\ result = None
    /\ probe = Probe("ComputationManager", "init", <<>>)
    /\ cm = Computations(<<>>, <<>>, <<>>, <<>>)
    /\ pc = "record"
    /\ NotTracing

\* add_computation("line", frame, arg) for the logical line at which the
\* running frame is.
LineEvent ==
    /\ pc = "record"
    /\ Top.traced
    /\ Top.line # RegisterLine
    /\ Recorded(cm) < MaxComps
    /\ \E line \in 1..RegisterLine :
          LET frame_id == current_
              c == TouchGroup(cm, frame_id, Top.fbt)
              group == c.frame_groups[frame_id]
              comp == Line(CodeOf(line), line, <<>>)
          IN /\ IF SameLogicalLine(group, line)
                THEN /\ cm' = c
                     /\ result' = Some(FALSE)
                ELSE /\ cm' = [c EXCEPT
                                 !.frame_groups[frame_id] = Append(@, comp),
                                 !.target = IF StartsWith(comp.code_str,
                                                          <<"cyberbrain", ".",
                                                            "register">>)
                                            THEN <<frame_id, Len(group) + 1>>
                                            ELSE @]
                     /\ result' = Some(TRUE)
             /\ stack' = [stack EXCEPT ![Len(stack)].line = line]
             /\ Recording(<<"line", line, frame_id>>)
    /\ UNCHANGED <<current_, child_index, activations, pc>>

\* add_computation("call", frame, arg) for a frame that a call expression
\* of the line created.
CallEvent ==
    /\ pc = "record"
    /\ Top.traced
    /\ Top.line \in 1..MaxLine
    /\ Top.calls <= MaxChild
    /\ Len(current_) < MaxDepth
    /\ Recorded(cm) < MaxComps
    /\ \E fbt \in {TypeOf(Callees[Top.calls + 1])} :
          LET frame_id == current_
              computation == Call(CallOf(Callees[Top.calls + 1], <<>>),
                                  Top.line, <<>>, <<>>)
              c == TouchGroup(cm, frame_id, fbt)
          IN /\ create_call
             /\ cm' = [c EXCEPT
                         !.frame_groups[frame_id] = AddCall(@, computation),
                         !.target = TargetAfter(c, frame_id)]
             /\ result' = Some(TRUE)
             /\ stack' = Append([stack EXCEPT ![Len(stack)].calls = @ + 1],
                                Frame(Append(Top.id, Top.calls), TRUE,
                                      Top.calls, fbt, 0, 0))
             /\ activations' = Append(activations, current_')
             /\ Recording(<<"call", Top.line, frame_id>>)
    /\ UNCHANGED pc

\* Call.create that takes every frame for the frame of a call.
NotACall_Pushed == create_call

\* Call.create: if it's not ast.Call, like ast.ListComp, ignore for now.
NotACall == UNCHANGED <<current_, child_index>>

\* add_computation("call", frame, arg) for a frame that is not the frame of
\* a call expression, as that of a list comprehension: no computation is
\* added, and the events of the frame are not passed on.
ListCompEvent ==
    /\ pc = "record"
    /\ Top.traced
    /\ Top.line \in 1..MaxLine
    /\ NotACall
    /\ result' = Some(FALSE)
    /\ stack' = Append(stack, Frame(Top.id, FALSE, 0, NEITHER, 0, 0))
    /\ Recording(<<"call", Top.line>>)
    /\ UNCHANGED <<cm, activations, pc>>

\* The return of a frame whose events are not passed on.
ListCompReturn ==
    /\ pc = "record"
    /\ ~Top.traced
    /\ stack' = [SubSeq(stack, 1, Len(stack) - 1)
                   EXCEPT ![Len(stack) - 1].listcomp = TRUE]
    /\ probe' = Probe("global_tracer", "return", <<"return">>)
    /\ UNCHANGED <<node, metadata, flow, current, next, trace_pass, first_pass,
                   visits, yielded>>
    /\ UNCHANGED <<cm, current_, child_index, activations, result, pc>>

\* add_computation("call", frame, arg) for the call of cyberbrain.register,
\* which is not traced and ends the recording.
RegisterEvent ==
    /\ pc = "record"
    /\ Top.traced
    /\ Top.line = RegisterLine
    /\ create_call
    /\ result' = Some(FALSE)
    /\ pc' = "recorded"
    /\ Recording(<<"call", Top.line, current_>>)
    /\ UNCHANGED <<cm, stack, activations>>

\* add_computation("return", frame, arg)
ReturnEvent ==
    /\ pc = "record"
    /\ Top.traced
    /\ Len(stack) > 1
    /\ Top.line \in 1..MaxLine
    /\ \E arg \in {0} :
          LET frame_id == current_
              group == cm.frame_groups[frame_id]
          IN /\ create_return
             /\ IF group[Len(group)].event_type = "line"
                THEN /\ cm' = [cm EXCEPT !.frame_groups[frame_id][Len(group)] =
                                 Returned(@, <<>>, arg)]
                     /\ pc' = pc
                ELSE /\ pc' = "error"
                     /\ cm' = cm
             /\ result' = Some(TRUE)
             /\ stack' = SubSeq(stack, 1, Len(stack) - 1)
             /\ Recording(<<"return", arg, frame_id>>)
    /\ UNCHANGED activations

NextRecord ==
    \/ LineEvent
    \/ CallEvent
    \/ ListCompEvent
    \/ ListCompReturn
    \/ RegisterEvent
    \/ ReturnEvent

SpecRecord == InitRecord /\ [][NextRecord]_vars


\* The computations recorded for a frame id.
GroupOf(c, frame_id) ==
    IF frame_id \in Range(c.order) THEN c.frame_groups[frame_id] ELSE <<>>

\* The number of a call among the calls of its caller, from its text.
CallIndex(comp) == CHOOSE i \in DOMAIN Callees : Callees[i] = comp.code_str[1]

\* C22: in every well-nested sequence of call and return events from the
\* root frame (0,), the k-th call (from 0) of an activation with the id P
\* runs in the frame P + (k,), and no two activations have the same id.
C22_FrameIds ==
    /\ \A i, j \in DOMAIN activations :
          activations[i] = activations[j] => i = j
    /\ pc = "record" =>
          /\ stack[1].id = RootFrame
          /\ \A i \in 2..Len(stack) :
                stack[i].traced =>
                   stack[i].id = Append(stack[i - 1].id, stack[i].index)
          /\ current_ = Top.id

C22_Witness ==
    /\ pc = "record"
    /\ {<<0, 0>>, <<0, 1>>, <<0, 0, 0>>, <<0, 1, 0>>} \subseteq Range(activations)
    /\ current_ = <<0, 1, 0>>

\* C28: when the line event of a statement comes before the call events of
\* the statement, every non-empty frame group ends with a Line, and the
\* Calls of a statement stand in the order of their execution right before
\* the Line of the statement.
C28_LineStaysLast ==
    \A f \in Range(cm.order) :
       LET group == cm.frame_groups[f]
       IN group # <<>> =>
             /\ group[Len(group)].event_type = "line"
             /\ \A k \in DOMAIN group :
                   group[k].event_type = "call" =>
                      /\ group[k + 1].surrounding = group[k].surrounding
                      /\ group[k + 1].event_type = "call" =>
                            CallIndex(group[k]) < CallIndex(group[k + 1])

C28_Witness ==
    /\ pc = "record"
    /\ \E f \in Range(cm.order) :
          LET group == cm.frame_groups[f]
          IN /\ Len(group) >= 4
             /\ group[1].event_type = "line"
             /\ group[2].event_type = "call"
             /\ group[3].event_type = "call"
             /\ group[4].event_type = "line"
             /\ group[4].return_value # None

\* C29: a line event with the surrounding of the last computation of the
\* group of its frame creates no computation: add_computation returns
\* False and leaves the computations and the target as they are; every other
\* line event appends one Line to the group of its frame and returns True.
C29_LineEventOnce ==
    [][probe'.kind = "line" =>
         LET frame_id == current_
             surrounding == probe'.args[2]
             group == GroupOf(cm, frame_id)
             after == GroupOf(cm', frame_id)
         IN IF group # <<>> /\ group[Len(group)].surrounding = surrounding
            THEN /\ result' = Some(FALSE)
                 /\ cm' = cm
            ELSE /\ result' = Some(TRUE)
                 /\ Len(after) = Len(group) + 1
                 /\ SubSeq(after, 1, Len(group)) = group
                 /\ after[Len(after)].event_type = "line"
                 /\ after[Len(after)].surrounding = surrounding
                 /\ \A f \in Range(cm.order) \ {frame_id} :
                       GroupOf(cm', f) = cm.frame_groups[f]]_vars

C29_Witness ==
    /\ pc = "record"
    /\ probe.kind = "line"
    /\ result = Some(FALSE)
    /\ Len(stack) > 1
    /\ Len(GroupOf(cm, current_)) > 1

C23_ParentByPrefix ==
    /\ WasApplied("is_child_of") =>
          (result[1] <=> probe.args[2] = parent(probe.args[1]))
    /\ WasApplied("is_parent_of") =>
          (result[1] <=> probe.args[1] = parent(probe.args[2]))

\* C24: get_param_arg_pairs pairs the i-th argument of the call site, the
\* positional ones first and then the keywords, with the i-th entry of the
\* declared parameters followed by one copy of the *args name per extra
\* positional value and one copy of the **kwargs name per extra keyword
\* value; it gives one pair per argument and none beyond the shorter list.
C24_PairsInOrder ==
    WasApplied("get_param_arg_pairs") =>
       LET value == probe.args[1]
           arg_info == probe.args[2]
           pos == Positional(CallArgs(value))
           kw == Keywords(CallArgs(value))
           extra == IF arg_info.varargs = None THEN 0
                    ELSE arg_info.locals[arg_info.varargs[1]]
           extra_kw == IF arg_info.keywords = None THEN 0
                       ELSE arg_info.locals[arg_info.keywords[1]]
           declared == Len(arg_info.args)
           count == declared + extra + extra_kw
           pairs == result[1]
       IN /\ Len(pairs) = (IF Len(pos) + Len(kw) < count
                           THEN Len(pos) + Len(kw) ELSE count)
          /\ \A i \in DOMAIN pairs :
                /\ pairs[i][1] = (IF i <= Len(pos) THEN pos[i]
                                  ELSE kw[i - Len(pos)])
                /\ pairs[i][2] =
                      (IF i <= declared THEN arg_info.args[i]
                       ELSE IF i <= declared + extra
                       THEN arg_info.varargs[1]
                       ELSE arg_info.keywords[1])

C24_Witness ==
    /\ WasApplied("get_param_arg_pairs")
    /\ \E i \in DOMAIN result[1] : \E j \in DOMAIN result[1] :
          /\ i < j
          /\ IsKeyword(result[1][j][1])
          /\ ~IsKeyword(result[1][i][1])
          /\ result[1][i][2] = "args"
          /\ result[1][j][2] = "kwargs"

\* C25: get_param_to_arg maps every parameter to the union of the names of
\* all the arguments bound to it, of each of the arguments of a variadic
\* parameter, and to the empty set for arguments without names.
C25_AllArguments ==
    WasApplied("get_param_to_arg") =>
       LET pairs == get_param_arg_pairs(probe.args[1], probe.args[2])
       IN /\ DOMAIN result[1] = {pairs[k][2] : k \in DOMAIN pairs}
          /\ \A p \in DOMAIN result[1] :
                result[1][p] =
                   UNION {ArgNames(pairs[k][1]) :
                            k \in {j \in DOMAIN pairs : pairs[j][2] = p}}

\* The expression a method is called on.
Receiver(value) == SubSeq(value, 1, TopLevel(value, ".") - 1)

\* C26: for a call of a constructor or an instance method, self is paired
\* with no positional argument: the k-th positional argument is bound to
\* the k-th declared parameter after self, and self to the receiver of the
\* call.
C26_SelfIsTheReceiver ==
    (WasApplied("get_param_arg_pairs") /\ probe.kind = "method") =>
       LET value == probe.args[1]
           declared == Tail(probe.args[2].args)
           pos == Positional(CallArgs(value))
           pairs == result[1]
       IN /\ \A k \in 1..Paired(pos, declared) :
                <<pos[k], declared[k]>> \in Range(pairs)
          /\ \A k \in DOMAIN pairs :
                pairs[k][2] = "self" => pairs[k][1] \notin Range(pos)
          /\ TopLevel(value, ".") > 0 =>
                <<Receiver(value), "self">> \in Range(pairs)

\* The identifiers of the change records a step stored on current.
StoredIds ==
    LET before == metadata[current]
        after == metadata'[current]
    IN RecordIds(SubSeq(after.var_appearances,
                        Len(before.var_appearances) + 1,
                        Len(after.var_appearances)))
       \cup RecordIds(SubSeq(after.var_modifications,
                             Len(before.var_modifications) + 1,
                             Len(after.var_modifications)))

\* The identifiers current tracks that differ between the vars and the
\* vars_before_return of the callee's last node.
ChangedAtExit ==
    LET callee_exit == metadata[node[current].returned_from]
    IN {id \in metadata'[current].tracking :
          \/ Appears(callee_exit.vars, id)
          \/ /\ callee_exit.vars_before_return # None
             /\ id \in DOMAIN callee_exit.vars_before_return[1]
             /\ Modified(callee_exit.vars, callee_exit.vars_before_return[1],
                         id)}

\* C31: in a case-3 step the identifiers whose change is propagated into
\* the callee are the identifiers current tracks whose value differs between
\* callee_exit.vars and callee_exit.vars_before_return.
C31_ChangedAtCalleeExit == [][Case3Step => StoredIds = ChangedAtExit]_vars

\* The nodes met from n by following next.
RECURSIVE NextChain(_)
NextChain(n) == IF n = NoNode THEN {} ELSE {n} \cup NextChain(node[n].next)

\* C36: after build_flow, the returned_from of every CALL node is the last
\* node of the next-chain of the callee that starts at its step_into, also
\* when a cleanup rule rewrote the last line of the callee.
C36_ReturnedFromEndsChain ==
    pc = "built" =>
       \A n \in Nodes :
          is_callsite(n) =>
             /\ node[node[n].returned_from].next = NoNode
             /\ node[n].returned_from \in NextChain(node[n].step_into)

\* C37: after build_flow the code_ast of every node is the parse of its final
\* code_str, also for the CALL nodes the two cleanup rules rewrote.
C37_AstOfTheStatement ==
    pc = "built" =>
       \A n \in Nodes :
          metadata[n].code_ast = parse_code_str(metadata[n].code_str)

\* Whether the loop has handled the node n as case k in this call.
Handled(n, k) == <<n, k>> \in Range(visits)

VisitIndex(n, k) == CHOOSE i \in DOMAIN visits : visits[i] = <<n, k>>

\* The visits of the nodes of one frame among a list of visits.
RECURSIVE InFrame(_, _)
InFrame(vs, frame_id) ==
    IF vs = <<>> THEN <<>>
    ELSE IF node[Head(vs)[1]].frame_id = frame_id
    THEN <<Head(vs)>> \o InFrame(Tail(vs), frame_id)
    ELSE InFrame(Tail(vs), frame_id)

\* The visits of a frame's nodes from n backward to the node after stop: a
\* call site is handled as case 3 and then as case 2, a line as case 1.
RECURSIVE Backward(_, _)
Backward(n, stop) ==
    IF n = stop \/ n \notin Nodes THEN <<>>
    ELSE (IF is_callsite(n) THEN <<<<n, 3>>, <<n, 2>>>> ELSE <<<<n, 1>>>>)
         \o Backward(node[n].prev, stop)

IsStrictPrefix(s, t) == Len(s) < Len(t) /\ SubSeq(t, 1, Len(s)) = s

\* C32: a CALL node C reached from the statement after it is handled as case
\* 3, then the nodes of the callee are handled from callee_exit.prev back to
\* the callee's first node, with the nodes of nested calls between them,
\* then C is handled as case 2, then C.prev; C is handled at most once as
\* each case, and never as case 3 once it was handled as case 2.
C32_VisitOrder ==
    [][/\ Case3Step =>
             /\ next' = node[current].returned_from
             /\ current' = node[node[current].returned_from].prev
       /\ Case2Step =>
             /\ next' = current
             /\ current' = node[current].prev
       /\ InCase3 => ~Handled(current, 3) /\ ~Handled(current, 2)
       /\ InCase2 =>
             /\ ~Handled(current, 2)
             /\ Handled(current, 3) =>
                   LET between == SubSeq(visits, VisitIndex(current, 3) + 1,
                                         Len(visits))
                       callee == node[node[current].step_into].frame_id
                   IN /\ \A j \in DOMAIN between :
                            IsStrictPrefix(node[current].frame_id,
                                           node[between[j][1]].frame_id)
                      /\ InFrame(between, callee)
                            = Backward(node[node[current].returned_from].prev,
                                       current)]_vars

C32_Witness ==
    /\ pc = "done"
    /\ \E c \in Nodes, d \in Nodes :
          /\ Handled(c, 3) /\ Handled(d, 3) /\ Handled(d, 2) /\ Handled(c, 2)
          /\ VisitIndex(c, 3) < VisitIndex(d, 3)
          /\ VisitIndex(d, 3) < VisitIndex(d, 2)
          /\ VisitIndex(d, 2) < VisitIndex(c, 2)
          /\ \E n \in Nodes : Handled(n, 1) /\ VisitIndex(n, 1) > VisitIndex(c, 2)

\* C33: in every well-nested sequence of events, FrameID.create returns the
\* caller's id for a call, the callee's id for every line between the call
\* and its return and for the return, and the caller's id again for the
\* first line after the return.
C33_CreatedFrameIds ==
    [][probe'.fn = "add_computation" =>
         /\ (probe'.kind = "call" /\ Len(probe'.args) = 3) =>
               /\ probe'.args[3] = Top.id
               /\ pc' = "record" =>
                     current_' = Append(Top.id, Top.calls)
         /\ probe'.kind = "line" => probe'.args[3] = Top.id
         /\ probe'.kind = "return" =>
               /\ probe'.args[3] = Top.id
               /\ current_' = stack[Len(stack) - 1].id]_vars

C33_Witness ==
    /\ pc = "record"
    /\ probe.fn = "add_computation"
    /\ probe.kind = "line"
    /\ Len(stack) = 2
    /\ Top.calls = 1
    /\ probe.args[3] = <<0, 1>>
    /\ result = Some(TRUE)
    /\ Len(GroupOf(cm, <<0, 1>>)) = 3

\* C38: a case-2 step never fails on a flow build_flow produced: every
\* identifier in the tracking of the callee's first node, other than the self
\* of a constructor, is a key of the call node's param_to_arg, and every
\* identifier of its entry is in the call node's vars.
C38_Case2Lookups ==
    InCase2 =>
      \A p \in metadata[next].tracking :
        ~SkipsSelf(node[next].frame_belonging_type = INIT_METHOD, p) =>
          /\ p \in DOMAIN metadata[current].param_to_arg
          /\ metadata[current].param_to_arg[p] \subseteq
               DOMAIN metadata[current].vars

\* C34: the assertion of get_and_update_var_changes never fails while
\* trace_flow walks a flow build_flow produced: whenever a case-1 or a case-3
\* step diffs current against next, the two nodes have the same frame id.
C34_SameFrame ==
    (InCase1 \/ InCase3) => node[current].frame_id = node[next].frame_id

C34_Witness ==
    /\ pc = "done"
    /\ \E i \in DOMAIN visits :
         /\ visits[i][2] = 3
         /\ \E j \in DOMAIN visits :
              /\ j > i
              /\ visits[j][2] = 3
              /\ node[visits[j][1]].frame_id
                   = Append(node[visits[i][1]].frame_id, 0)
    /\ \E i \in DOMAIN visits :
         /\ visits[i][2] = 2
         /\ i < Len(visits)
         /\ visits[i + 1][2] = 1
         /\ node[visits[i + 1][1]].frame_id = node[visits[i][1]].frame_id

\* C39: for every call node, arg_to_param is the inverse relation of
\* param_to_arg: for every parameter p and every identifier a of
\* param_to_arg[p], p is among the parameters arg_to_param gives for a.
C39_InverseMapping ==
    \A n \in DOMAIN node :
      is_callsite(n) =>
        \A p \in DOMAIN metadata[n].param_to_arg :
          \A a \in metadata[n].param_to_arg[p] :
            /\ a \in DOMAIN metadata[n].arg_to_param
            /\ metadata[n].arg_to_param[a] = p

\* The fields of a node's metadata that are not slicing metadata.
Frozen(md) ==
    [f \in DOMAIN md \ {"tracking", "var_appearances", "var_modifications",
                        "var_switches", "is_relevant_return"} |-> md[f]]

IsPrefix(s, t) == Len(s) <= Len(t) /\ SubSeq(t, 1, Len(s)) = s

\* C35: trace_flow only writes slicing metadata: every step of the pass
\* leaves the vars, vars_before_return, statement text, frame id,
\* param_to_arg, arg_to_param and the four edges of every node as they were,
\* and the records stored on a node are only appended to.
C35_OnlySlicingMetadata ==
    [][(pc = "built" \/ pc = "walk") =>
         /\ node' = node
         /\ DOMAIN metadata' = DOMAIN metadata
         /\ \A n \in DOMAIN metadata :
              /\ Frozen(metadata'[n]) = Frozen(metadata[n])
              /\ IsPrefix(metadata[n].var_appearances,
                          metadata'[n].var_appearances)
              /\ IsPrefix(metadata[n].var_modifications,
                          metadata'[n].var_modifications)
              /\ IsPrefix(metadata[n].var_switches,
                          metadata'[n].var_switches)]_vars

C35_Witness ==
    /\ pc = "done"
    /\ trace_pass = "second"
    /\ \E n \in DOMAIN metadata :
         /\ first_pass[n].var_modifications # <<>>
         /\ Len(metadata[n].var_modifications)
              > Len(first_pass[n].var_modifications)
    /\ \E n \in DOMAIN metadata :
         /\ first_pass[n].var_switches # <<>>
         /\ Len(metadata[n].var_switches) > Len(first_pass[n].var_switches)

\* The nodes reachable from the nodes of S by next and step_into edges.
RECURSIVE ReachFrom(_)
ReachFrom(S) ==
    LET more == S \cup ({node[n].next : n \in S} \ {NoNode})
                  \cup ({node[n].step_into : n \in S} \ {NoNode})
    IN IF more = S THEN S ELSE ReachFrom(more)

\* The number of nodes yielded for the callee of n before n itself.
CalleeSize(n) ==
    IF is_callsite(n) THEN Cardinality(ReachFrom({node[n].step_into})) ELSE 0

YieldIndex(n) == CHOOSE i \in DOMAIN yielded : yielded[i] = n

\* C40: iterating a flow yields every node reachable from start by next and
\* step_into edges exactly once; the nodes of a frame come in next order, and
\* all the nodes of a call site's callee, recursively, come immediately before
\* the call node.
C40_IterationOrder ==
    yielded # <<>> =>
      /\ Range(yielded) = ReachFrom({flow.start})
      /\ \A i, j \in DOMAIN yielded : yielded[i] = yielded[j] => i = j
      /\ YieldIndex(flow.start) = 1 + CalleeSize(flow.start)
      /\ \A n \in Range(yielded) :
           /\ YieldIndex(n) > CalleeSize(n)
           /\ {yielded[k] :
                 k \in (YieldIndex(n) - CalleeSize(n))..(YieldIndex(n) - 1)}
                = IF is_callsite(n) THEN ReachFrom({node[n].step_into})
                  ELSE {}
           /\ is_callsite(n) =>
                YieldIndex(node[n].step_into)
                  = YieldIndex(n) - CalleeSize(n)
                      + CalleeSize(node[n].step_into)
           /\ node[n].next # NoNode =>
                YieldIndex(node[n].next)
                  = YieldIndex(n) + 1 + CalleeSize(node[n].next)

C40_Witness ==
    /\ yielded # <<>>
    /\ \E n \in Range(yielded) :
         /\ is_callsite(n)
         /\ is_callsite(node[n].step_into)
         /\ node[n].next # NoNode
         /\ node[n].prev # ROOT

====
